---- MODULE Spec2Model ----
(***************************************************************************)
(* Model of the DOM layer (core/dom.ts) and of the style applicator        *)
(* (ApplyStyle) of the Jodit editor.                                       *)
(*                                                                         *)
(* The DOM is a heap: a sequence of node records, a node is its index in   *)
(* the heap, 0 is null.  A node that was removed from the tree stays in    *)
(* the heap as a detached node, as in the browser.                         *)
(***************************************************************************)
EXTENDS Integers, Sequences, FiniteSets, TLC

\* ------------------------------------------------------------------ bounds
\* nodes of the editor content below the editor root in an initial document
MaxNodes == 3
\* fragments (font elements) one selection may consist of
MaxFrags == 2
\* apply() calls on one document
MaxPasses == 2

\* ------------------------------------------------------------ basic values
Null == 0
\* the editor root (jodit.editor, selection.area) is the first node of the heap
Root == 1

\* the two CSS properties a style rule may name
Props == {"p1", "p2"}
NoCss == [p \in Props |-> ""]

\* Body(e): the value e under a name of its own
With(e, Body(_)) == Body(e)

Range(s) == {s[i] : i \in DOMAIN s}

IndexOf(s, x) == IF \E i \in DOMAIN s : s[i] = x
                 THEN CHOOSE i \in DOMAIN s : s[i] = x
                 ELSE 0

RemoveAt(s, i) == SubSeq(s, 1, i - 1) \o SubSeq(s, i + 1, Len(s))

InsertAt(s, i, x) == SubSeq(s, 1, i - 1) \o <<x>> \o SubSeq(s, i, Len(s))

\* the sequence s with its element at i replaced by the sequence t
SpliceAt(s, i, t) == SubSeq(s, 1, i - 1) \o t \o SubSeq(s, i + 1, Len(s))

\* -------------------------------------------------------------- node kinds
\* a node record: tag is nodeName in lower case, val the characters of a text
\* node (0 is a white-space character, any other number a visible one),
\* st the inline style of an element, oth whether the style attribute holds
\* properties other than Props, at whether the element has attributes
\* other than style, mk whether it is a selection marker
NewNode(t) == [tag |-> t, kids |-> <<>>, val |-> <<>>, st |-> NoCss,
               oth |-> FALSE, at |-> FALSE, mk |-> FALSE]

IsText(H, n) == n # Null /\ H[n].tag = "#text"

IsElement(H, n) == n # Null /\ H[n].tag # "#text"

\* consts.IS_BLOCK restricted to the tags of the model
BlockTags == {"div", "p", "h1"}

IsBlock(H, n) == n # Null /\ H[n].tag \in BlockTags

IsTag(H, n, t) == IsElement(H, n) /\ H[n].tag = t

\* Dom.isEmptyTextNode: a text node with no character besides invisible ones
IsEmptyTextNode(H, n) == IsText(H, n) /\ H[n].val = <<>>

\* Select.isMarker
IsMarker(H, n) == IsElement(H, n) /\ H[n].tag = "span" /\ H[n].mk

\* ------------------------------------------------------------- tree access
Parent(H, n) ==
    IF n # Null /\ \E p \in DOMAIN H : n \in Range(H[p].kids)
    THEN CHOOSE p \in DOMAIN H : n \in Range(H[p].kids)
    ELSE Null

FirstChild(H, n) == IF n # Null /\ H[n].kids # <<>> THEN H[n].kids[1] ELSE Null

LastChild(H, n) ==
    IF n # Null /\ H[n].kids # <<>> THEN H[n].kids[Len(H[n].kids)] ELSE Null

NextSibling(H, n) ==
    With(Parent(H, n), LAMBDA p :
      IF p = Null THEN Null
      ELSE With(IndexOf(H[p].kids, n), LAMBDA i :
             IF i < Len(H[p].kids) THEN H[p].kids[i + 1] ELSE Null))

PreviousSibling(H, n) ==
    With(Parent(H, n), LAMBDA p :
      IF p = Null THEN Null
      ELSE With(IndexOf(H[p].kids, n), LAMBDA i :
             IF i > 1 THEN H[p].kids[i - 1] ELSE Null))

RECURSIVE Descendants(_, _)
Descendants(H, n) ==
    UNION {{c} \cup Descendants(H, c) : c \in Range(H[n].kids)}

Subtree(H, n) == {n} \cup Descendants(H, n)

RECURSIVE Ancestors(_, _)
Ancestors(H, n) ==
    With(Parent(H, n), LAMBDA p :
      IF p = Null THEN {} ELSE {p} \cup Ancestors(H, p))

\* the nodes of the subtree of n in document order
RECURSIVE PreOrder(_, _)
RECURSIVE PreOrderSeq(_, _)
PreOrder(H, n) == <<n>> \o PreOrderSeq(H, H[n].kids)
PreOrderSeq(H, s) ==
    IF s = <<>> THEN <<>> ELSE PreOrder(H, s[1]) \o PreOrderSeq(H, Tail(s))

\* Node.textContent
RECURSIVE TextContent(_, _)
RECURSIVE TextContentSeq(_, _)
TextContent(H, n) ==
    IF IsText(H, n) THEN H[n].val ELSE TextContentSeq(H, H[n].kids)
TextContentSeq(H, s) ==
    IF s = <<>> THEN <<>>
    ELSE TextContent(H, s[1]) \o TextContentSeq(H, Tail(s))

\* helpers trim: the text without its white space at both ends is empty
TrimIsEmpty(t) == \A i \in DOMAIN t : t[i] = 0

\* ---------------------------------------------------------- DOM primitives
\* Node.removeChild
RemoveChild(H, n) ==
    With(Parent(H, n), LAMBDA p :
      IF p = Null THEN H
      ELSE [H EXCEPT ![p].kids = RemoveAt(@, IndexOf(@, n))])

\* Node.insertBefore(n, ref) on parent p; ref = Null appends (appendChild).
\* The node is first removed from the parent it has.
InsertBefore(H, p, n, ref) ==
    With(RemoveChild(H, n), LAMBDA H1 :
      With(IndexOf(H1[p].kids, ref), LAMBDA i :
        IF ref = Null \/ i = 0
        THEN [H1 EXCEPT ![p].kids = Append(@, n)]
        ELSE [H1 EXCEPT ![p].kids = InsertAt(@, i, n)]))

AppendChild(H, p, n) == InsertBefore(H, p, n, Null)

\* insertBefore / appendChild of a DocumentFragment f: its children move
RECURSIVE InsertAllBefore(_, _, _, _)
InsertAllBefore(H, p, s, ref) ==
    IF s = <<>> THEN H
    ELSE InsertAllBefore(InsertBefore(H, p, s[1], ref), p, Tail(s), ref)

InsertFragmentBefore(H, p, f, ref) == InsertAllBefore(H, p, H[f].kids, ref)

\* Node.replaceChild(new, old) on the parent of old
ReplaceChild(H, new, old) ==
    With(RemoveChild(H, new), LAMBDA H1 :
      With(Parent(H1, old), LAMBDA p :
        [H1 EXCEPT ![p].kids = SpliceAt(@, IndexOf(@, old), <<new>>)]))

\* create.element / createDocumentFragment: the new node is Len(H) + 1
Alloc(H, t) == Append(H, NewNode(t))

NewId(H) == Len(H) + 1

\* ------------------------------------------------------------------- Dom
\* Dom.safeRemove
SafeRemove(H, n) == IF n # Null /\ Parent(H, n) # Null THEN RemoveChild(H, n) ELSE H

\* (an unwrap that leaves the children at the end of the parent)
UnwrapAtEnd(H, n) ==
    With(Parent(H, n), LAMBDA p :
      IF p = Null THEN H
      ELSE SafeRemove(InsertAllBefore(H, p, H[n].kids, Null), n))

\* Dom.unwrap: the children of n take its place in its parent
Unwrap(H, n) ==
    With(Parent(H, n), LAMBDA p :
      IF p = Null THEN H
      ELSE SafeRemove(InsertAllBefore(H, p, H[n].kids, n), n))

RECURSIVE UnwrapAll(_, _)
UnwrapAll(H, s) == IF s = <<>> THEN H ELSE UnwrapAll(Unwrap(H, s[1]), Tail(s))

\* a replacement that forgets to move the children over
ReplaceNoMove(H, elm, t, withAttributes, notMoveContent) ==
    LET id == NewId(H) IN ReplaceChild(Alloc(H, t), id, elm)

\* Dom.replace: a new element of tag t (it is NewId(H)) takes the children of
\* elm, its attributes if withAttributes, and its place in the parent
Replace(H, elm, t, withAttributes, notMoveContent) ==
    LET new == NewId(H) IN
    With(Alloc(H, t), LAMBDA H1 :
      With(IF notMoveContent THEN H1
           ELSE InsertAllBefore(H1, new, H1[elm].kids, Null), LAMBDA H2 :
        With(IF withAttributes
             THEN [H2 EXCEPT ![new].st = H2[elm].st, ![new].oth = H2[elm].oth,
                             ![new].at = H2[elm].at, ![new].mk = H2[elm].mk]
             ELSE H2, LAMBDA H3 :
          IF Parent(H3, elm) # Null THEN ReplaceChild(H3, new, elm) ELSE H3)))

\* the fragment put in front of the element, not behind it
AfterWrongSide(H, elm, f) ==
    With(Parent(H, elm), LAMBDA p :
      IF p = Null THEN H ELSE InsertFragmentBefore(H, p, f, elm))

\* Dom.after with a DocumentFragment f as the new element
After(H, elm, f) ==
    With(Parent(H, elm), LAMBDA p :
      IF p = Null THEN H
      ELSE IF LastChild(H, p) = elm
           THEN InsertFragmentBefore(H, p, f, Null)
           ELSE InsertFragmentBefore(H, p, f, NextSibling(H, elm)))

\* Node.insertBefore(n, ref) on p as the Dom functions call it on nodes of
\* the tree: the heap, and whether the call threw.  A node that is the new
\* parent or one of its ancestors is refused (HierarchyRequestError);
\* insertBefore(n, n) leaves n where it is.
InsertNode(H, p, n, ref) ==
    IF n = p \/ n \in Ancestors(H, p) THEN [H |-> H, threw |-> TRUE]
    ELSE [H |-> InsertBefore(H, p, n, IF ref = n THEN NextSibling(H, n) ELSE ref),
          threw |-> FALSE]

\* Dom.after with a node as the new element
AfterElement(H, elm, newElement) ==
    With(Parent(H, elm), LAMBDA parentNode :
      IF parentNode = Null THEN [H |-> H, threw |-> FALSE]
      ELSE IF LastChild(H, parentNode) = elm
           THEN InsertNode(H, parentNode, newElement, Null)
           ELSE InsertNode(H, parentNode, newElement, NextSibling(H, elm)))

\* Dom.appendChildFirst
AppendChildFirst(H, root, newElement) ==
    With(FirstChild(H, root), LAMBDA child :
      IF child # Null
      THEN IF child # newElement THEN InsertNode(H, root, newElement, child)
           ELSE [H |-> H, threw |-> FALSE]
      ELSE InsertNode(H, root, newElement, Null))

\* (a moveContent that fills the fragment and never inserts it)
MoveContentDrop(H, from, to, inStart) ==
    [H |-> InsertAllBefore(Alloc(H, "#fragment"), NewId(H), H[from].kids, Null),
     threw |-> FALSE]

\* Dom.moveContent: the children of from go into a new fragment (NewId(H)),
\* and the fragment is put at the end of to, or at its start
MoveContent(H, from, to, inStart) ==
    LET fragment == NewId(H) IN
    With(InsertAllBefore(Alloc(H, "#fragment"), fragment, H[from].kids, Null),
         LAMBDA H1 :
      IF fragment \in Ancestors(H1, to) THEN [H |-> H1, threw |-> TRUE]
      ELSE [H |-> InsertFragmentBefore(H1, to, fragment,
                     IF ~inStart \/ FirstChild(H1, to) = Null THEN Null
                     ELSE FirstChild(H1, to)),
            threw |-> FALSE])

\* Dom.find.  C is the set of nodes on which condition is true (condition is
\* false on null in all its uses).  The result is the node found, or Null,
\* and the sequence of the arguments condition was called with.
Step(H, n, dir) ==
    CASE dir = "nextSibling"     -> NextSibling(H, n)
      [] dir = "previousSibling" -> PreviousSibling(H, n)
      [] dir = "firstChild"      -> FirstChild(H, n)
      [] dir = "lastChild"       -> LastChild(H, n)
      [] OTHER                   -> Null

RECURSIVE Find(_, _, _, _, _, _, _)
RECURSIVE FindLoop(_, _, _, _, _, _)
FindLoop(H, start, C, root, sibling, child) ==
    With(Step(H, start, sibling), LAMBDA next :
      IF next \in C THEN [res |-> next, calls |-> <<next>>]
      ELSE
        With(IF child # "" /\ next # Null
             THEN With(Step(H, next, child), LAMBDA below :
                    IF below # Null
                    THEN Find(H, below, C, next, TRUE, sibling, child)
                    ELSE [res |-> Null, calls |-> <<>>])
             ELSE [res |-> Null, calls |-> <<>>], LAMBDA sub :
          IF sub.res # Null
          THEN [res |-> sub.res, calls |-> <<next>> \o sub.calls]
          ELSE
            With(IF next = Null THEN Parent(H, start) ELSE next, LAMBDA nxt :
              With(IF nxt # Null /\ nxt # root
                   THEN FindLoop(H, nxt, C, root, sibling, child)
                   ELSE [res |-> Null, calls |-> <<>>], LAMBDA rest :
                [res |-> rest.res,
                 calls |-> <<next>> \o sub.calls \o rest.calls]))))

Find(H, node, C, root, recurse, sibling, child) ==
    IF recurse /\ node \in C THEN [res |-> node, calls |-> <<node>>]
    ELSE With(FindLoop(H, node, C, root, sibling, child), LAMBDA r :
           [res |-> r.res,
            calls |-> (IF recurse THEN <<node>> ELSE <<>>) \o r.calls])

\* Dom.prev, Dom.next
DomPrev(H, node, C, root, withChild) ==
    Find(H, node, C, root, FALSE, "previousSibling",
         IF withChild THEN "lastChild" ELSE "")

DomNext(H, node, C, root, withChild) ==
    Find(H, node, C, root, FALSE, "nextSibling",
         IF withChild THEN "firstChild" ELSE "")

\* Dom.up
RECURSIVE UpLoop(_, _, _, _)
UpLoop(H, start, C, root) ==
    IF start \in C THEN start
    ELSE With(Parent(H, start), LAMBDA p :
           IF start = root \/ p = Null THEN Null
           ELSE IF p # root THEN UpLoop(H, p, C, root) ELSE Null)

Up(H, node, C, root) == IF node = Null THEN Null ELSE UpLoop(H, node, C, root)

\* Dom.up, with the nodes condition is called on, in order
RECURSIVE UpTrace(_, _, _, _)
UpTrace(H, start, C, root) ==
    IF start \in C THEN <<start>>
    ELSE With(Parent(H, start), LAMBDA p :
           IF start = root \/ p = Null \/ p = root THEN <<start>>
           ELSE <<start>> \o UpTrace(H, p, C, root))

\* Dom.closest with a predicate
Closest(H, node, C, root) == Up(H, node, C, root)

\* ----------------------------------------------------------------- Range
\* Range.extractContents for a range whose boundary points (sc, so) and
\* (ec, eo) lie in elements (setStartBefore, setEndAfter, ...), so is the
\* number of children of sc before the start.  The extracted nodes are
\* appended to tgt: fully contained nodes move, partially contained ones are
\* cloned without their children (DOM standard, "extract").
InclAnc(H, a, n) == a = n \/ a \in Ancestors(H, n)

CommonAncestor(H, a, b) ==
    CHOOSE c \in DOMAIN H :
        /\ InclAnc(H, c, a) /\ InclAnc(H, c, b)
        /\ \A d \in DOMAIN H :
              InclAnc(H, d, a) /\ InclAnc(H, d, b) => InclAnc(H, d, c)

ChildToward(H, ca, n) == CHOOSE c \in Range(H[ca].kids) : InclAnc(H, c, n)

CloneShallow(H, n) == Append(H, [H[n] EXCEPT !.kids = <<>>])

RECURSIVE ExtractInto(_, _, _, _, _, _)
ExtractInto(H, tgt, sc, so, ec, eo) ==
    With(CommonAncestor(H, sc, ec), LAMBDA ca :
      With(IF sc # ca THEN ChildToward(H, ca, sc) ELSE Null, LAMBDA fp :
        With(IF ec # ca THEN ChildToward(H, ca, ec) ELSE Null, LAMBDA lp :
          LET from  == IF sc = ca THEN so + 1 ELSE IndexOf(H[ca].kids, fp) + 1
              to    == IF ec = ca THEN eo ELSE IndexOf(H[ca].kids, lp) - 1
              c     == NewId(H)
          IN
          With(IF from <= to THEN SubSeq(H[ca].kids, from, to) ELSE <<>>,
               LAMBDA whole :
            With(IF fp = Null THEN H
                 ELSE ExtractInto(AppendChild(CloneShallow(H, fp), tgt, c),
                                  c, sc, so, fp, Len(H[fp].kids)), LAMBDA H1 :
              With(InsertAllBefore(H1, tgt, whole, Null), LAMBDA H2 :
                IF lp = Null THEN H2
                ELSE ExtractInto(AppendChild(CloneShallow(H2, lp), tgt, NewId(H2)),
                                 NewId(H2), lp, 0, ec, eo)))))))

\* the boundary points before and after a node: <<container, offset>>
Before(H, n) ==
    With(Parent(H, n), LAMBDA p : <<p, IndexOf(H[p].kids, n) - 1>>)

PointAfter(H, n) ==
    With(Parent(H, n), LAMBDA p : <<p, IndexOf(H[p].kids, n)>>)

\* extractContents into a new DocumentFragment, which is NewId(H)
ExtractContents(H, s, e) ==
    ExtractInto(Alloc(H, "#fragment"), NewId(H), s[1], s[2], e[1], e[2])

\* ----------------------------------------------------------------- Style
\* A style descriptor (class Style): element is the target tag, defaultTag
\* the fallback tag, rules the options.style map ("" = the property is not
\* named), hasStyle whether options.style is given at all.
RuleKeys(sty) == SelectSeq(<<"p1", "p2">>, LAMBDA k : sty.rules[k] # "")

\* helpers css(elm, key): the value of the property on the element
CssGet(H, elm, key) == H[elm].st[key]

\* helpers css(elm, key, value)
CssSet(H, elm, key, value) == [H EXCEPT ![elm].st[key] = value]

\* (a css() call that sets nothing)
CssSetNone(H, elm, sty, keys) == H

RECURSIVE CssSetAll(_, _, _, _)
CssSetAll(H, elm, sty, keys) ==
    IF keys = <<>> THEN H
    ELSE CssSetAll(CssSet(H, elm, keys[1], sty.rules[keys[1]]), elm, sty, Tail(keys))

\* helpers attr(elm, 'style'): the style attribute is there and not empty
HasStyleAttr(H, elm) == H[elm].oth \/ \E k \in Props : H[elm].st[k] # ""

\* (a comparison that keeps the case)
KeepCase(v) == v

\* String.toLowerCase on the CSS values of the model
Lower(v) == IF v = "V" THEN "v" ELSE v

\* normalizeCssValue: the values of the model are in normal form
NormalizeCssValue(v) == v

\* ------------------------------------------------------------ ApplyStyle
\* ApplyStyle.isNormalNode
IsNormalNode(H, elm) ==
    elm # Null /\ ~IsEmptyTextNode(H, elm) /\ ~IsMarker(H, elm)

NormalNodes(H) == {n \in DOMAIN H : IsNormalNode(H, n)}

\* ApplyStyle.elementHasSameStyle
ElementHasSameStyle(H, elm, sty) ==
    /\ sty.hasStyle
    /\ ~IsTag(H, elm, "font")
    /\ IsElement(H, elm) /\ H[elm].tag # "#fragment"
    /\ \A k \in Range(RuleKeys(sty)) :
          /\ CssGet(H, elm, k) # ""
          /\ Lower(sty.rules[k]) = Lower(CssGet(H, elm, k))

\* ApplyStyle.isSuitableElement
IsSuitableElement(H, elm, strict, sty) ==
    IF elm = Null THEN FALSE
    ELSE LET isDefault       == sty.element = sty.defaultTag
             elmHasSameStyle == ElementHasSameStyle(H, elm, sty)
             elmIsSame       == H[elm].tag = sty.element
         IN  \/ (~isDefault \/ ~strict) /\ elmIsSame
             \/ elmHasSameStyle /\ IsNormalNode(H, elm)

SuitableNodes(H, strict, sty) ==
    {n \in DOMAIN H : IsSuitableElement(H, n, strict, sty)}

\* an assignment of the mode that does not look at the mode there is
SetModeAlways(S, m) == [S EXCEPT !.mode = m]

\* A state of the applicator while it works: the tree and this.mode
\* ("" is undefined).  "if (this.mode === undefined) this.mode = m"
SetMode(S, m) == IF S.mode = "" THEN [S EXCEPT !.mode = m] ELSE S

\* (a loop over the rules that sets every rule, whatever the mode is)
RECURSIVE ToggleRulesSet(_, _, _, _)
ToggleRulesSet(S, elm, sty, keys) ==
    IF keys = <<>> THEN S
    ELSE ToggleRulesSet(
            SetMode([S EXCEPT !.H = CssSet(S.H, elm, keys[1], sty.rules[keys[1]])],
                    "WRAP"),
            elm, sty, Tail(keys))

\* ApplyStyle.toggleStyles, the loop over the rules of the style
RECURSIVE ToggleRules(_, _, _, _)
ToggleRules(S, elm, sty, keys) ==
    IF keys = <<>> THEN S
    ELSE
      LET rule == keys[1]
          S1 == IF \/ S.mode = "UNWRAP"
                   \/ CssGet(S.H, elm, rule) = NormalizeCssValue(sty.rules[rule])
                THEN SetMode([S EXCEPT !.H = CssSet(S.H, elm, rule, "")], "UNWRAP")
                ELSE SetMode([S EXCEPT !.H = CssSet(S.H, elm, rule, sty.rules[rule])],
                             "WRAP")
      IN  ToggleRules(S1, elm, sty, Tail(keys))

\* ApplyStyle.toggleStyles
ToggleStyles(S, elm, sty) ==
    With(IF sty.hasStyle /\ S.H[elm].tag = sty.defaultTag
         THEN ToggleRules(S, elm, sty, RuleKeys(sty))
         ELSE S, LAMBDA S1 :
      LET isBlock == IsBlock(S1.H, elm)
          isSuitableInline ==
              ~isBlock /\ (~HasStyleAttr(S1.H, elm) \/ S1.H[elm].tag # sty.defaultTag)
          isSuitableBlock ==
              ~isSuitableInline /\ isBlock /\ S1.H[elm].tag = sty.element
      IN  IF isSuitableInline \/ isSuitableBlock
          THEN SetMode([S1 EXCEPT !.H = Unwrap(S1.H, elm)], "UNWRAP")
          ELSE S1)

\* ApplyStyle.checkSuitableParent: ok is the value returned
CheckSuitableParent(S, font, sty) ==
    LET H == S.H IN
    With(Parent(H, font), LAMBDA parentNode :
      IF /\ parentNode # Null
         /\ DomNext(H, font, NormalNodes(H), parentNode, TRUE).res = Null
         /\ DomPrev(H, font, NormalNodes(H), parentNode, TRUE).res = Null
         /\ IsSuitableElement(H, parentNode, FALSE, sty)
         /\ parentNode # Root
         /\ (~IsBlock(H, parentNode) \/ sty.elementIsBlock)
      THEN [ok |-> TRUE, S |-> ToggleStyles(S, parentNode, sty)]
      ELSE [ok |-> FALSE, S |-> S])

\* ApplyStyle.checkSuitableChild
CheckSuitableChild(S, font, sty) ==
    LET H == S.H IN
    With(FirstChild(H, font), LAMBDA firstChild :
      IF /\ firstChild # Null
         /\ DomNext(H, firstChild, NormalNodes(H), font, TRUE).res = Null
         /\ DomPrev(H, firstChild, NormalNodes(H), font, TRUE).res = Null
         /\ IsSuitableElement(H, firstChild, FALSE, sty)
      THEN [ok |-> TRUE, S |-> ToggleStyles(S, firstChild, sty)]
      ELSE [ok |-> FALSE, S |-> S])

\* the remainder a range extraction gave: unwrapped when it has no text
DropEmptyRemainder(H, frag) ==
    With(FirstChild(H, frag), LAMBDA firstChild :
      IF TrimIsEmpty(TextContent(H, frag)) /\ firstChild # Null
      THEN Unwrap(H, firstChild)
      ELSE H)

\* ApplyStyle.checkClosestWrapper
CheckClosestWrapper(S, font, sty) ==
    LET H == S.H IN
    With(Closest(H, font, SuitableNodes(H, TRUE, sty), Root), LAMBDA wrapper :
      IF wrapper = Null THEN [ok |-> FALSE, S |-> S]
      ELSE IF sty.elementIsBlock
      THEN [ok |-> TRUE, S |-> ToggleStyles(S, wrapper, sty)]
      ELSE
        LET leftFragment == NewId(H) IN
        With(ExtractContents(H, Before(H, wrapper), Before(H, font)), LAMBDA H1 :
        With(DropEmptyRemainder(H1, leftFragment), LAMBDA H2 :
        With(Parent(H2, wrapper), LAMBDA parentNode :
        With(IF parentNode # Null
             THEN InsertFragmentBefore(H2, parentNode, leftFragment, wrapper)
             ELSE H2, LAMBDA H3 :
        LET rightFragment == NewId(H3) IN
        With(ExtractContents(H3, PointAfter(H3, font), PointAfter(H3, wrapper)),
             LAMBDA H4 :
        With(DropEmptyRemainder(H4, rightFragment), LAMBDA H5 :
        With(After(H5, wrapper, rightFragment), LAMBDA H6 :
          [ok |-> TRUE,
           S |-> ToggleStyles([S EXCEPT !.H = H6], wrapper, sty)]))))))))

\* ApplyStyle.unwrapChildren: Dom.find with a condition that is never true
\* calls it on every node of the fragment and on null where a sibling is
\* missing; firstElementSuit is decided by the first call
UnwrapChildren(S, font, sty) ==
    LET H == S.H IN
    With(FirstChild(H, font), LAMBDA firstChild :
    With(IF firstChild = Null THEN <<>>
         ELSE Find(H, firstChild, {}, font, TRUE,
                   "nextSibling", "firstChild").calls, LAMBDA calls :
      LET needUnwrap == SelectSeq(calls,
                            LAMBDA e : e # Null /\ IsSuitableElement(H, e, TRUE, sty))
          firstElementSuit ==
              calls # <<>> /\ calls[1] # Null
                           /\ IsSuitableElement(H, calls[1], TRUE, sty)
      IN  [ok |-> firstElementSuit,
           S |-> [S EXCEPT !.H = UnwrapAll(H, needUnwrap)]]))

\* the last node an edge callback of wrapUnwrappedText stored: the last call
\* of the condition with a node that is not a block (elm when there is none)
RECURSIVE LastStored(_, _, _)
LastStored(H, calls, dflt) ==
    IF calls = <<>> THEN dflt
    ELSE LET c == calls[Len(calls)] IN
         IF c # Null /\ ~IsBlock(H, c) THEN c
         ELSE LastStored(H, SubSeq(calls, 1, Len(calls) - 1), dflt)

Blocks(H) == {n \in DOMAIN H : IsBlock(H, n)}

\* the point a range collapses to after extractContents (DOM standard)
RECURSIVE TopBelow(_, _, _)
TopBelow(H, ref, ec) ==
    With(Parent(H, ref), LAMBDA p :
      IF p # Null /\ ~InclAnc(H, p, ec) THEN TopBelow(H, p, ec) ELSE ref)

CollapsePoint(H, s, e) ==
    IF InclAnc(H, s[1], e[1]) THEN s
    ELSE PointAfter(H, TopBelow(H, s[1], e[1]))

\* Range.insertNode of an element at a point between children
InsertAtPoint(H, pt, n) ==
    InsertBefore(H, pt[1], n,
                 IF pt[2] < Len(H[pt[1]].kids) THEN H[pt[1]].kids[pt[2] + 1]
                 ELSE Null)

\* ApplyStyle.wrapUnwrappedText: the heap and the wrapper created
WrapUnwrappedText(H, elm, sty) ==
    With(LastStored(H, DomPrev(H, elm, Blocks(H), Root, TRUE).calls, elm),
         LAMBDA start :
    With(LastStored(H, DomNext(H, elm, Blocks(H), Root, TRUE).calls, elm),
         LAMBDA end :
    With(Before(H, start), LAMBDA s :
    With(PointAfter(H, end), LAMBDA e :
    LET fragment == NewId(H) IN
    With(ExtractContents(H, s, e), LAMBDA H1 :
    LET wrapper == NewId(H1) IN
    With(InsertFragmentBefore(Alloc(H1, sty.element), wrapper, fragment, Null),
         LAMBDA H2 :
      [H |-> InsertAtPoint(H2, CollapsePoint(H, s, e), wrapper),
       wrapper |-> wrapper]))))))

\* the choice of the wrapper and its replacement by the style's element
WrapIt(S1, font, sty) ==
    LET H == S1.H IN
    With(IF ~sty.elementIsBlock THEN [H |-> H, wrapper |-> font]
         ELSE With(Up(H, font, Blocks(H), Root), LAMBDA box :
                IF box # Null THEN [H |-> H, wrapper |-> box]
                ELSE WrapUnwrappedText(H, font, sty)), LAMBDA w :
      LET newWrapper == NewId(w.H) IN
      With(Replace(w.H, w.wrapper, sty.element, FALSE, FALSE), LAMBDA H1 :
        [S1 EXCEPT !.H = IF sty.element = sty.defaultTag /\ sty.hasStyle
                         THEN CssSetAll(H1, newWrapper, sty, RuleKeys(sty))
                         ELSE H1]))

\* a fallback that wraps whatever the mode is
FallbackWrapAnyMode(S, font, sty) == WrapIt(SetMode(S, "WRAP"), font, sty)

\* ApplyStyle.applyToElement, the part after the four checks
FallbackWrap(S, font, sty) ==
    With(SetMode(S, "WRAP"), LAMBDA S1 :
      IF S1.mode # "WRAP" THEN S1 ELSE WrapIt(S1, font, sty))

\* ApplyStyle.applyToElement
ApplyToElement(S, font, sty) ==
    With(CheckSuitableParent(S, font, sty), LAMBDA r1 :
    IF r1.ok THEN r1.S ELSE
    With(CheckSuitableChild(r1.S, font, sty), LAMBDA r2 :
    IF r2.ok THEN r2.S ELSE
    With(CheckClosestWrapper(r2.S, font, sty), LAMBDA r3 :
    IF r3.ok THEN r3.S ELSE
    With(UnwrapChildren(r3.S, font, sty), LAMBDA r4 :
    IF r4.ok THEN r4.S ELSE FallbackWrap(r4.S, font, sty)))))

\* ------------------------------------------------------------- Selection
\* the text in front of a node, and in front of a point, in document order
RECURSIVE TextOf(_, _)
TextOf(H, s) ==
    IF s = <<>> THEN <<>>
    ELSE (IF IsText(H, s[1]) THEN H[s[1]].val ELSE <<>>) \o TextOf(H, Tail(s))

InTree(H, n) == n = Root \/ Root \in Ancestors(H, n)

TextBefore(H, n) ==
    With(PreOrder(H, Root), LAMBDA order :
      TextOf(H, SubSeq(order, 1, IndexOf(order, n) - 1)))

TextBeforePoint(H, pt) ==
    IF pt[2] < Len(H[pt[1]].kids)
    THEN TextBefore(H, H[pt[1]].kids[pt[2] + 1])
    ELSE TextBefore(H, pt[1]) \o TextContent(H, pt[1])

\* a selection marker: <span data-jodit-selection_marker style="display:none">
MarkerNode == [NewNode("span") EXCEPT !.mk = TRUE, !.oth = TRUE, !.at = TRUE]

\* Select.save for a range from point s to point e (a caret when s = e):
\* a marker is inserted at each end; the markers are NewId(H), NewId(H) + 1
SaveRange(H, s, e) ==
    LET m1 == NewId(H)
        e1 == IF e[1] = s[1] /\ e[2] >= s[2] THEN <<e[1], e[2] + 1>> ELSE e
    IN  With(InsertAtPoint(Append(H, MarkerNode), s, m1), LAMBDA H1 :
          IF s = e THEN [H |-> H1, info |-> <<m1>>]
          ELSE [H |-> InsertAtPoint(Append(H1, MarkerNode), e1, m1 + 1),
                info |-> <<m1, m1 + 1>>])

\* Select.restore: the selection is set at the markers found in the area and
\* the markers are removed; off is the text in front of each restored point,
\* live is the text in front of the points of the selection as it stands
RECURSIVE RemoveAll(_, _)
RemoveAll(H, s) == IF s = <<>> THEN H ELSE RemoveAll(SafeRemove(H, s[1]), Tail(s))

Restore(H, info, live) ==
    [H   |-> RemoveAll(H, info),
     off |-> [i \in DOMAIN info |->
                 IF InTree(H, info[i]) THEN TextBefore(H, info[i]) ELSE live[i].off]]

\* helpers normalizeNode: adjacent text nodes are merged into the first
RECURSIVE NormalizeNode(_, _)
NormalizeNode(H, n) ==
    IF n = Null THEN H
    ELSE With(NextSibling(H, n), LAMBDA nx :
      IF IsText(H, n) /\ Parent(H, n) # Null
      THEN IF IsText(H, nx)
           THEN NormalizeNode(SafeRemove([H EXCEPT ![n].val = @ \o H[nx].val], nx), n)
           ELSE NormalizeNode(H, nx)
      ELSE With(NormalizeNode(H, FirstChild(H, n)), LAMBDA H1 :
             NormalizeNode(H1, NextSibling(H1, n))))

\* Select.save of the selection sl: the heap with the markers in it, the
\* markers, and the text in front of each end of the selection; without a
\* selection there is nothing to mark
SaveSelection(H, sl) ==
    LET lastRun == sl.runs[Len(sl.runs)] IN
    IF sl.kind = "none" THEN [H |-> H, info |-> <<>>, off |-> <<>>] ELSE
    With(IF sl.kind = "caret" THEN sl.at ELSE Before(H, sl.runs[1][1]), LAMBDA s :
    With(IF sl.kind = "caret" THEN sl.at
         ELSE PointAfter(H, lastRun[Len(lastRun)]), LAMBDA e :
    With(SaveRange(H, s, e), LAMBDA sv :
    With(TextBeforePoint(H, s), LAMBDA off :
      [H |-> sv.H, info |-> sv.info,
       off |-> IF s = e THEN <<off>> ELSE <<off, TextBeforePoint(H, e)>>]))))

\* a restore() whose markers are all gone leaves the selection nowhere
NoLive(info) == [i \in DOMAIN info |-> [pt |-> <<>>, off |-> <<-1>>]]

\* (a wrap that puts the wrapper at the end of the parent)
WrapAtEnd(H, current, tag, sl) ==
    With(SaveSelection(H, sl), LAMBDA sv :
      LET wrapper == NewId(sv.H) IN
      With(Alloc(sv.H, tag), LAMBDA H1 :
      With(Parent(H1, current), LAMBDA parentNode :
        IF parentNode = Null
        THEN [H |-> H1, ret |-> Null, info |-> sv.info, saved |-> sv.off,
              off |-> <<>>]
        ELSE With(AppendChild(AppendChild(H1, parentNode, wrapper), wrapper, current),
                  LAMBDA H3 :
             With(Restore(H3, sv.info, NoLive(sv.info)), LAMBDA r :
               [H |-> r.H, ret |-> wrapper, info |-> <<>>, saved |-> sv.off,
                off |-> r.off])))))

\* Dom.wrap(current, tag, editor) under the selection sl: the heap, the
\* wrapper returned (Null for null), the markers that were not restored, the
\* text in front of the selection at save() and at restore()
Wrap(H, current, tag, sl) ==
    With(SaveSelection(H, sl), LAMBDA sv :
      LET wrapper == NewId(sv.H) IN
      With(Alloc(sv.H, tag), LAMBDA H1 :
      With(Parent(H1, current), LAMBDA parentNode :
        IF parentNode = Null
        THEN [H |-> H1, ret |-> Null, info |-> sv.info, saved |-> sv.off,
              off |-> <<>>]
        ELSE With(InsertBefore(H1, parentNode, wrapper, current), LAMBDA H2 :
             With(AppendChild(H2, wrapper, current), LAMBDA H3 :
             With(Restore(H3, sv.info, NoLive(sv.info)), LAMBDA r :
               [H |-> r.H, ret |-> wrapper, info |-> <<>>, saved |-> sv.off,
                off |-> r.off]))))))

\* (a first loop that never looks at the previous sibling)
InlineFirstHere(H, n) == n

\* Dom.wrapInline, the two do-while loops: the first and the last of the
\* siblings around n that are not blocks
RECURSIVE InlineFirst(_, _)
InlineFirst(H, n) ==
    With(PreviousSibling(H, n), LAMBDA tmp :
      IF tmp # Null /\ ~IsBlock(H, tmp) THEN InlineFirst(H, tmp) ELSE n)

RECURSIVE InlineLast(_, _)
InlineLast(H, n) ==
    With(NextSibling(H, n), LAMBDA tmp :
      IF tmp # Null /\ ~IsBlock(H, tmp) THEN InlineLast(H, tmp) ELSE n)

\* Dom.wrapInline, the last loop: first and its next siblings up to last
\* are appended to wrapper
RECURSIVE MoveRun(_, _, _, _)
MoveRun(H, wrapper, first, last) ==
    With(NextSibling(H, first), LAMBDA next :
      With(AppendChild(H, wrapper, first), LAMBDA H1 :
        IF first = last \/ next = Null THEN H1
        ELSE MoveRun(H1, wrapper, next, last)))

\* Dom.wrapInline(current, tag, editor) under the selection sl
WrapInline(H, current, tag, sl) ==
    With(SaveSelection(H, sl), LAMBDA sv :
      LET wrapper == NewId(sv.H) IN
      With(InlineFirst(sv.H, current), LAMBDA first :
      With(InlineLast(sv.H, current), LAMBDA last :
      With(Alloc(sv.H, tag), LAMBDA H1 :
      With(Parent(H1, first), LAMBDA parentNode :
      With(IF parentNode # Null
           THEN InsertBefore(H1, parentNode, wrapper, first)
           ELSE H1, LAMBDA H2 :
      With(MoveRun(H2, wrapper, first, last), LAMBDA H3 :
      With(Restore(H3, sv.info, NoLive(sv.info)), LAMBDA r :
        [H |-> r.H, ret |-> wrapper, info |-> <<>>, saved |-> sv.off,
         off |-> r.off]))))))))

\* next looked for when the callback has returned
EachNextLate(HBefore, HAfter, node, elm) ==
    DomNext(HAfter, node, DOMAIN HAfter, elm, TRUE).res

\* Dom.each, "const next = Dom.next(node, Boolean, elm)": Before is the tree
\* when the callback is called, After the tree when it has returned
EachNext(HBefore, HAfter, node, elm) ==
    DomNext(HBefore, node, DOMAIN HBefore, elm, TRUE).res

\* Dom.each with a callback that changes nothing and returns false on the
\* nodes of F: false as soon as the callback returned false
RECURSIVE EachLoop(_, _, _, _)
RECURSIVE Each(_, _, _)
EachLoop(H, elm, node, F) ==
    IF node = Null THEN TRUE
    ELSE IF node \in F THEN FALSE
    ELSE IF Parent(H, node) # Null /\ ~Each(H, node, F) THEN FALSE
    ELSE EachLoop(H, elm, EachNext(H, H, node, elm), F)

\* (a Dom.each that does not go below the children of elm)
EachShallow(H, elm, F) == \A i \in DOMAIN H[elm].kids : H[elm].kids[i] \notin F

Each(H, elm, F) == EachLoop(H, elm, FirstChild(H, elm), F)

\* Dom.isEmpty with the default condNoEmptyElement
NoEmptyElement == {"img", "svg", "canvas", "input", "textarea", "form"}

IsEmpty(H, node) ==
    IF node = Null THEN TRUE
    ELSE IF IsText(H, node) THEN TrimIsEmpty(H[node].val)
    ELSE /\ H[node].tag \notin NoEmptyElement
         /\ Each(H, node,
                 {elm \in DOMAIN H :
                     \/ IsText(H, elm) /\ ~TrimIsEmpty(H[elm].val)
                     \/ IsElement(H, elm) /\ H[elm].tag \in NoEmptyElement})

\* Dom.each, the frames whose loop has come to its end return true
RECURSIVE Returned(_)
Returned(st) ==
    IF st # <<>> /\ st[Len(st)].node = Null
    THEN Returned(SubSeq(st, 1, Len(st) - 1))
    ELSE st

\* ------------------------------------------------------ initial documents
\* The labels of the nodes of an initial document: visible text, white
\* space, and elements with their inline style.
TextLabels ==
    {[tag |-> "#text", st |-> NoCss, oth |-> FALSE, at |-> FALSE, vis |-> v] :
        v \in BOOLEAN}

ElemLabels(sty) ==
    LET el(t, v, o, a) == [tag |-> t, st |-> [NoCss EXCEPT !["p1"] = v], oth |-> o,
                          at |-> a, vis |-> FALSE]
    IN  IF sty.elementIsBlock
        THEN {el("h1", "", FALSE, FALSE), el("p", "", FALSE, FALSE),
              el("em", "", FALSE, FALSE)}
        ELSE {el("em", "", FALSE, FALSE), el("p", "", FALSE, FALSE),
              el("span", "v", FALSE, FALSE)}
             \cup (IF sty.element = "strong"
                   THEN {el("strong", "", FALSE, FALSE), el("strong", "", FALSE, TRUE)}
                   ELSE {el("span", "v", TRUE, FALSE)})

\* the forests of n nodes: sequences of trees [l |-> label, k |-> forest]
RECURSIVE Forests(_, _)
RECURSIVE Trees(_, _)
Trees(n, sty) ==
    {[l |-> lab, k |-> f] : lab \in ElemLabels(sty), f \in Forests(n - 1, sty)}
    \cup (IF n = 1 THEN {[l |-> t, k |-> <<>>] : t \in TextLabels} ELSE {})
Forests(n, sty) ==
    IF n = 0 THEN {<<>>}
    ELSE UNION {{<<t>> \o f : t \in Trees(k, sty), f \in Forests(n - k, sty)}
                : k \in 1 .. n}

\* the heap with the forest f added as the last children of p
RECURSIVE LoadForest(_, _, _)
LoadForest(H, p, f) ==
    IF f = <<>> THEN H
    ELSE
      LET id == NewId(H)
          t  == f[1]
          nd == IF t.l.tag = "#text"
                THEN [NewNode("#text") EXCEPT !.val = IF t.l.vis THEN <<id>> ELSE <<0>>]
                ELSE [NewNode(t.l.tag) EXCEPT !.st = t.l.st, !.oth = t.l.oth,
                                              !.at = t.l.at]
          H1 == [Append(H, nd) EXCEPT ![p].kids = Append(@, id)]
      IN  LoadForest(LoadForest(H1, id, t.k), p, Tail(f))

Docs(sty) ==
    {LoadForest(<<NewNode("div")>>, Root, f) :
        f \in UNION {Forests(n, sty) : n \in 1 .. MaxNodes}}

\* the style descriptors: bold (strong, with font-weight), a colour (span
\* with one CSS rule), a heading (h1, a block)
Bold == [element |-> "strong", defaultTag |-> "span", elementIsBlock |-> FALSE,
         hasStyle |-> TRUE, rules |-> [NoCss EXCEPT !["p1"] = "v"]]

Colour == [element |-> "span", defaultTag |-> "span", elementIsBlock |-> FALSE,
           hasStyle |-> TRUE, rules |-> [NoCss EXCEPT !["p1"] = "v"]]

Heading == [element |-> "h1", defaultTag |-> "p", elementIsBlock |-> TRUE,
            hasStyle |-> FALSE, rules |-> NoCss]

Styles == {Bold, Colour, Heading}

\* ----------------------------------------------------------- the selection
\* A selection is a caret at a point between the children of an element, or
\* a range given by the runs of sibling nodes it covers; each run is what
\* execCommand('fontsize') in wrapInTag puts into one font element.
TreeNodes(H) == Subtree(H, Root)

\* execCommand('fontsize') wraps inline content that holds text: a run is a
\* row of siblings without any block in them and with some text
Inline(H, n) == \A x \in Subtree(H, n) : ~IsBlock(H, x)

Runs(H) ==
    {r \in UNION {{SubSeq(H[p].kids, i, j) :
                      i \in 1 .. Len(H[p].kids), j \in 1 .. Len(H[p].kids)}
                  : p \in {q \in TreeNodes(H) : IsElement(H, q)}} :
        /\ r # <<>>
        /\ \A i \in DOMAIN r : Inline(H, r[i])
        /\ TextContentSeq(H, r) # <<>>}

RunNodes(H, r) == UNION {Subtree(H, n) : n \in Range(r)}

Precedes(H, a, b) ==
    With(PreOrder(H, Root), LAMBDA order : IndexOf(order, a) < IndexOf(order, b))

RECURSIVE RunSeqs(_, _)
RunSeqs(H, k) ==
    IF k = 0 THEN {<<>>}
    ELSE {<<>>} \cup
         {<<r>> \o rs : r \in Runs(H), rs \in RunSeqs(H, k - 1)}

GoodRuns(H, rs) ==
    /\ rs # <<>>
    /\ \A i \in DOMAIN rs : \A j \in DOMAIN rs :
          i < j => /\ RunNodes(H, rs[i]) \cap RunNodes(H, rs[j]) = {}
                   /\ Precedes(H, rs[i][1], rs[j][1])

Carets(H) ==
    UNION {{<<p, i>> : i \in 0 .. Len(H[p].kids)}
           : p \in {q \in TreeNodes(H) : IsElement(H, q)}}

Selections(H) ==
    {[kind |-> "range", runs |-> rs, at |-> <<>>] :
        rs \in {x \in RunSeqs(H, MaxFrags) : GoodRuns(H, x)}}
    \cup {[kind |-> "caret", runs |-> <<>>, at |-> pt] : pt \in Carets(H)}

NoSelection == [kind |-> "none", runs |-> <<>>, at |-> <<>>]

\* ------------------------------------------------------------------ state
VARIABLES
    dom,       \* the heap of DOM nodes
    style,     \* the Style of the ApplyStyle object
    mode,      \* ApplyStyle.mode: "" (undefined), "WRAP" or "UNWRAP"
    sel,       \* the selection the user made
    pc,        \* where apply() stands: "idle", "caret", "frags"
    queue,     \* the font elements wrapInTag has still to visit
    selInfo,   \* the markers of the save() that is not yet restored
    savedOff,  \* the text in front of each end of the selection at save()
    live,      \* the text in front of each end when its marker is lost
    selOff,    \* the text in front of each end of the selection restored last
    hist,      \* each apply(): the tree, selection and mode at its start, the mode at its end
    call,      \* the operation called last, its node argument and its result
    stack,     \* Dom.each: the frames [elm, node] of the calls that are open
    seen,      \* Dom.each: the nodes the callback was invoked on, in order
    owed,      \* Dom.each: the later siblings of the nodes the callback removed
    log,       \* the last call made on the tree, or on the editor, by itself
    modules,   \* the global registry of modules: what is stored under each name
    jodit,     \* the editor or view object: its fields
    frames     \* the calls of setEditorValue and setElementValue that are open

vars == <<dom, style, mode, sel, pc, queue, selInfo, savedOff, live, selOff, hist,
          call, stack, seen, owed, log, modules, jodit, frames>>

eachVars == <<stack, seen, owed, log, modules, jodit, frames>>

NoCall == [op |-> "", node |-> Null, ret |-> Null]

\* the end of a selection whose marker is gone and that stands nowhere
Lost == [pt |-> <<>>, off |-> <<-1>>]

Init ==
    /\ style \in Styles
    /\ dom \in Docs(style)
    /\ mode = ""
    /\ sel = NoSelection
    /\ pc = "idle"
    /\ queue = <<>>
    /\ selInfo = <<>>
    /\ savedOff = <<>>
    /\ live = <<>>
    /\ selOff = <<>>
    /\ hist = <<>>
    /\ call = NoCall
    /\ stack = <<>>
    /\ seen = <<>>
    /\ owed = {}
    /\ log = <<>>
    /\ modules = <<>>
    /\ jodit = <<>>
    /\ frames = <<>>

\* the user selects a part of the document, or puts the caret somewhere
Select ==
    /\ pc = "idle" /\ sel = NoSelection /\ hist = <<>>
    /\ sel' \in Selections(dom)
    /\ UNCHANGED eachVars /\ UNCHANGED <<call, dom, style, mode, pc, queue, selInfo, savedOff, live, selOff, hist>>

\* new ApplyStyle(jodit, style): the constructor leaves mode undefined
Construct ==
    /\ pc = "idle" /\ mode # "" /\ sel # NoSelection /\ Len(hist) < MaxPasses
    /\ mode' = ""
    /\ UNCHANGED eachVars /\ UNCHANGED <<call, dom, style, sel, pc, queue, selInfo, savedOff, live, selOff, hist>>

\* wrapInTag, first part: execCommand('fontsize', 7) puts each run of the
\* selection that is still in the tree into a font element
RECURSIVE MakeFonts(_, _)
MakeFonts(H, runs) ==
    IF runs = <<>> THEN [H |-> H, fonts |-> <<>>]
    ELSE
      With(SelectSeq(runs[1], LAMBDA n : Parent(H, n) # Null), LAMBDA r :
        IF r = <<>> THEN MakeFonts(H, Tail(runs))
        ELSE LET font == NewId(H) IN
             With(InsertBefore(Alloc(H, "font"), Parent(H, r[1]), font, r[1]),
                  LAMBDA H1 :
             With(InsertAllBefore(H1, font, r, Null), LAMBDA H2 :
             With(MakeFonts(H2, Tail(runs)), LAMBDA rest :
               [H |-> rest.H, fonts |-> <<font>> \o rest.fonts]))))

\* apply(), collapsed selection, up to the call of applyToElement:
\* insertNode(font), setCursorIn(font), save()
ApplyBeginCaret ==
    /\ pc = "idle" /\ sel.kind = "caret" /\ Len(hist) < MaxPasses
    /\ \E font \in {NewId(dom)} :
       \E H1 \in {InsertAtPoint(Alloc(dom, "font"), sel.at, font)} :
       \E H2 \in {AppendChild(Alloc(H1, "#text"), font, NewId(H1))} :
       \E sv \in {SaveRange(H2, <<font, 1>>, <<font, 1>>)} :
           /\ dom' = sv.H
           /\ selInfo' = sv.info
           /\ savedOff' = <<TextBeforePoint(dom, sel.at)>>
           /\ queue' = <<font>>
    /\ live' = <<Lost>>
    /\ pc' = "caret"
    /\ hist' = Append(hist, [H |-> dom, sel |-> sel, mode |-> mode, end |-> ""])
    /\ call' = [op |-> "apply", node |-> Null, ret |-> Null]
    /\ UNCHANGED eachVars /\ UNCHANGED <<style, mode, sel, selOff>>

\* (a pass over a caret that leaves its anchor where it is)
ApplyCaretKeepAnchor ==
    /\ pc = "caret"
    /\ \E font \in {queue[1]} :
       \E S \in {ApplyToElement([H |-> dom, mode |-> mode], font, style)} :
           /\ dom' = S.H
           /\ mode' = S.mode
           /\ live' = live
    /\ queue' = <<>>
    /\ pc' = "frags"
    /\ UNCHANGED eachVars /\ UNCHANGED <<call, style, sel, selInfo, savedOff, selOff, hist>>

\* apply(), collapsed selection: applyToElement(font), Dom.safeRemove(font).
\* A caret that stood in the removed font stands where the font was.
ApplyCaret ==
    /\ pc = "caret"
    /\ \E font \in {queue[1]} :
       \E S \in {ApplyToElement([H |-> dom, mode |-> mode], font, style)} :
           /\ dom' = SafeRemove(S.H, font)
           /\ mode' = S.mode
           /\ live' = IF InTree(S.H, font) /\ selInfo[1] \in Subtree(S.H, font)
                      THEN <<[pt |-> Before(S.H, font), off |-> TextBefore(S.H, font)]>>
                      ELSE live
    /\ queue' = <<>>
    /\ pc' = "frags"
    /\ UNCHANGED eachVars /\ UNCHANGED <<call, style, sel, selInfo, savedOff, selOff, hist>>

\* apply(), selection not collapsed, up to the first callback of wrapInTag:
\* save(), normalizeNode(area.firstChild), the font elements
ApplyBeginRange ==
    /\ pc = "idle" /\ sel.kind = "range" /\ Len(hist) < MaxPasses
    /\ LET lastRun == sel.runs[Len(sel.runs)] IN
       \E s \in {Before(dom, sel.runs[1][1])} :
       \E e \in {PointAfter(dom, lastRun[Len(lastRun)])} :
       \E sv \in {SaveRange(dom, s, e)} :
       \E mf \in {MakeFonts(NormalizeNode(sv.H, FirstChild(sv.H, Root)), sel.runs)} :
           /\ dom' = mf.H
           /\ queue' = mf.fonts
           /\ selInfo' = sv.info
           /\ savedOff' = <<TextBeforePoint(dom, s), TextBeforePoint(dom, e)>>
    /\ live' = <<Lost, Lost>>
    /\ pc' = "frags"
    /\ hist' = Append(hist, [H |-> dom, sel |-> sel, mode |-> mode, end |-> ""])
    /\ call' = [op |-> "apply", node |-> Null, ret |-> Null]
    /\ UNCHANGED eachVars /\ UNCHANGED <<style, mode, sel, selOff>>

\* wrapInTag, one font element: the callback applyToElement unless the font
\* holds nothing but a marker, then the font is unwrapped if it is still
\* in the tree
ApplyFragment ==
    /\ pc = "frags" /\ queue # <<>>
    /\ \E font \in {queue[1]} :
       \E firstChild \in {FirstChild(dom, font)} :
       \E skip \in {/\ firstChild # Null
                    /\ firstChild = LastChild(dom, font)
                    /\ IsMarker(dom, firstChild)} :
       \E S \in {IF skip THEN [H |-> dom, mode |-> mode]
                 ELSE ApplyToElement([H |-> dom, mode |-> mode], font, style)} :
           /\ dom' = IF Parent(S.H, font) # Null THEN Unwrap(S.H, font) ELSE S.H
           /\ mode' = S.mode
    /\ queue' = Tail(queue)
    /\ UNCHANGED eachVars /\ UNCHANGED <<call, style, sel, pc, selInfo, savedOff, live, selOff, hist>>

\* The selection restore() sets, as the next apply() will see it: the nodes
\* that lie between the two markers.  execCommand('fontsize') wraps either
\* the topmost such nodes, run by run, or each text node ("text").
Contained(H, m1, m2, n) ==
    /\ n # Null
    /\ With(PreOrder(H, Root), LAMBDA order :
         /\ IndexOf(order, m1) < IndexOf(order, n)
         /\ IndexOf(order, n) < IndexOf(order, m2))
    /\ m2 \notin Subtree(H, n)
    /\ ~H[n].mk
    /\ Inline(H, n)

RestoredRuns(H, m1, m2, variant) ==
    LET order == PreOrder(H, Root)
        run(n) == With(H[Parent(H, n)].kids, LAMBDA ks :
                    With(IndexOf(ks, n), LAMBDA i :
                      SelectSeq(SubSeq(ks, i, Len(ks)), LAMBDA k :
                         \A j \in i .. IndexOf(ks, k) : Contained(H, m1, m2, ks[j]))))
    IN  With(IF variant = "text"
             THEN With(SelectSeq(order, LAMBDA n :
                           Contained(H, m1, m2, n) /\ IsText(H, n)), LAMBDA texts :
                    [i \in DOMAIN texts |-> <<texts[i]>>])
             ELSE With(SelectSeq(order, LAMBDA n :
                           /\ Contained(H, m1, m2, n)
                           /\ ~Contained(H, m1, m2, Parent(H, n))
                           /\ ~Contained(H, m1, m2, PreviousSibling(H, n))),
                       LAMBDA tops : [i \in DOMAIN tops |-> run(tops[i])]),
             LAMBDA all : SelectSeq(all, LAMBDA r : TextContentSeq(H, r) # <<>>))

RestoredSelection(H, info, lv, variant) ==
    IF info = <<>> \/ \E i \in DOMAIN info : ~InTree(H, info[i])
    THEN IF Len(info) = 1 /\ lv[1] # Lost
         THEN [kind |-> "caret", runs |-> <<>>, at |-> lv[1].pt]
         ELSE NoSelection
    ELSE IF Len(info) = 1
    THEN [kind |-> "caret", runs |-> <<>>, at |-> Before(H, info[1])]
    ELSE With(RestoredRuns(H, info[1], info[2], variant), LAMBDA rs :
           IF rs = <<>>
           THEN [kind |-> "caret", runs |-> <<>>, at |-> Before(H, info[1])]
           ELSE [kind |-> "range", runs |-> rs, at |-> <<>>])

\* apply(), the end: sel.restore(selInfo)
ApplyEnd ==
    /\ pc = "frags" /\ queue = <<>>
    /\ \E r \in {Restore(dom, selInfo, live)} :
       /\ dom' = r.H
       /\ selOff' = r.off
    /\ \E variant \in {"top", "text"} :
          sel' = RestoredSelection(dom, selInfo, live, variant)
    /\ selInfo' = <<>>
    /\ pc' = "idle"
    /\ hist' = [hist EXCEPT ![Len(hist)].end = mode]
    /\ UNCHANGED eachVars /\ UNCHANGED <<call, style, mode, queue, savedOff, live>>

\* the tags Dom.wrap and Dom.wrapInline are called with
WrapTags == {"p"}

\* a node to call Dom.wrap or Dom.wrapInline on: a node of the document, or
\* an element that was created and never inserted
Created == [H |-> Alloc(dom, "em"), node |-> NewId(dom)]

\* Dom.wrap(current, tag, editor)
DomWrap ==
    /\ pc = "idle" /\ sel # NoSelection /\ hist = <<>>
    /\ \E tag \in WrapTags, current \in (TreeNodes(dom) \ {Root}) \cup {Created.node} :
       \E r \in {Wrap(IF current = Created.node THEN Created.H ELSE dom,
                      current, tag, sel)} :
          /\ dom' = r.H
          /\ selInfo' = r.info
          /\ savedOff' = r.saved
          /\ selOff' = r.off
          /\ call' = [op |-> "wrap", node |-> current, ret |-> r.ret]
    /\ pc' = "done"
    /\ hist' = Append(hist, [H |-> dom, sel |-> sel, mode |-> mode, end |-> ""])
    /\ UNCHANGED eachVars /\ UNCHANGED <<style, mode, sel, queue, live>>

\* Dom.wrapInline(current, tag, editor)
DomWrapInline ==
    /\ pc = "idle" /\ sel # NoSelection /\ hist = <<>>
    /\ \E tag \in WrapTags, current \in (TreeNodes(dom) \ {Root}) \cup {Created.node} :
       \E r \in {WrapInline(IF current = Created.node THEN Created.H ELSE dom,
                            current, tag, sel)} :
          /\ dom' = r.H
          /\ selInfo' = r.info
          /\ savedOff' = r.saved
          /\ selOff' = r.off
          /\ call' = [op |-> "wrapInline", node |-> current, ret |-> r.ret]
    /\ pc' = "done"
    /\ hist' = Append(hist, [H |-> dom, sel |-> sel, mode |-> mode, end |-> ""])
    /\ UNCHANGED eachVars /\ UNCHANGED <<style, mode, sel, queue, live>>

\* what the callback given to Dom.each does with the node it is called on:
\* nothing, Dom.safeRemove(node), or it returns false
Callbacks == {"keep", "remove", "stop"}

\* Dom.each(elm, callback) is called
EachBegin ==
    /\ pc = "idle" /\ sel = NoSelection /\ hist = <<>>
    /\ \E elm \in TreeNodes(dom) :
          /\ stack' = Returned(<<[elm |-> elm, node |-> FirstChild(dom, elm)]>>)
          /\ call' = [op |-> "each", node |-> elm, ret |-> Null]
    /\ pc' = "each"
    /\ UNCHANGED <<dom, style, mode, sel, queue, selInfo, savedOff, live, selOff,
                   hist, seen, owed, log, modules, jodit, frames>>

\* Dom.each, one turn of the loop of the innermost call: next is computed,
\* the callback runs, the children of the node are gone into if the node is
\* still in the tree
EachVisit ==
    /\ pc = "each" /\ stack # <<>>
    /\ \E cb \in Callbacks :
       LET top  == stack[Len(stack)]
           node == top.node
       IN
       \E H1 \in {IF cb = "remove" THEN SafeRemove(dom, node) ELSE dom} :
       \E here \in {[stack EXCEPT ![Len(stack)].node =
                                     EachNext(dom, H1, node, top.elm)]} :
              /\ dom' = H1
              /\ seen' = Append(seen, node)
              /\ owed' = IF cb = "remove"
                         THEN owed \cup {n \in Range(dom[top.elm].kids) :
                                            IndexOf(dom[top.elm].kids, node)
                                              < IndexOf(dom[top.elm].kids, n)}
                         ELSE owed
              /\ stack' = IF cb = "stop" THEN <<>>
                          ELSE IF Parent(H1, node) # Null
                          THEN Returned(Append(here,
                                   [elm |-> node, node |-> FirstChild(H1, node)]))
                          ELSE Returned(here)
              /\ call' = IF cb = "stop" THEN [call EXCEPT !.ret = -1] ELSE call
    /\ UNCHANGED <<style, mode, sel, pc, queue, selInfo, savedOff, live, selOff, hist,
                   log, modules, jodit, frames>>

\* Dom.each returns: true, unless the callback returned false
EachEnd ==
    /\ pc = "each" /\ stack = <<>>
    /\ pc' = "done"
    /\ call' = IF call.ret = -1 THEN [call EXCEPT !.ret = 0]
               ELSE [call EXCEPT !.ret = 1]
    /\ UNCHANGED eachVars
    /\ UNCHANGED <<dom, style, mode, sel, queue, selInfo, savedOff, live, selOff, hist>>

Next ==
    \/ Select
    \/ Construct
    \/ ApplyBeginCaret
    \/ ApplyCaret
    \/ ApplyBeginRange
    \/ ApplyFragment
    \/ ApplyEnd

Spec == Init /\ [][Next]_vars

\* the calls of Dom.wrap and Dom.wrapInline beside those of apply()
NextDom ==
    \/ Select
    \/ Construct
    \/ ApplyBeginCaret
    \/ ApplyCaret
    \/ ApplyBeginRange
    \/ ApplyFragment
    \/ ApplyEnd
    \/ DomWrap
    \/ DomWrapInline

SpecDom == Init /\ [][NextDom]_vars

\* the calls of Dom.each
NextEach ==
    \/ EachBegin
    \/ EachVisit
    \/ EachEnd

SpecEach == Init /\ [][NextEach]_vars

\* ------------------------------------------------ the Dom functions alone
\* nodes below the root in a document that consists of elements only
MaxShape == 4

\* The documents the Dom functions are called on by themselves: text, white
\* space, inline elements (span), blocks (p) and images, and the documents of
\* MaxShape elements, which are deep enough for a search to go two levels
\* below a sibling.
TreeElem(t) == [tag |-> t, st |-> NoCss, oth |-> FALSE, at |-> FALSE, vis |-> FALSE]

RECURSIVE TreeForests(_, _, _)
RECURSIVE TreeTrees(_, _, _)
TreeTrees(n, inner, leaves) ==
    (IF n = 1 THEN {[l |-> lab, k |-> <<>>] : lab \in leaves}
     ELSE {[l |-> lab, k |-> f] :
              lab \in inner, f \in TreeForests(n - 1, inner, leaves)})
TreeForests(n, inner, leaves) ==
    IF n = 0 THEN {<<>>}
    ELSE UNION {{<<t>> \o f : t \in TreeTrees(k, inner, leaves),
                              f \in TreeForests(n - k, inner, leaves)}
                : k \in 1 .. n}

TreeDocs ==
    With({LoadForest(<<NewNode("div")>>, Root, f) :
             f \in UNION {TreeForests(n, {TreeElem("span"), TreeElem("p")},
                                      TextLabels \cup {TreeElem("span"), TreeElem("p"),
                                                       TreeElem("img")})
                          : n \in 1 .. MaxNodes}
                   \cup TreeForests(MaxShape, {TreeElem("span")}, {TreeElem("span")})},
         LAMBDA loaded :
      \* ... and the same documents with one text of white space made empty
      loaded
      \cup {[H EXCEPT ![n].val = <<>>] :
               <<H, n>> \in {<<H, n>> \in loaded \X (1 .. MaxShape + 1) :
                                n \in DOMAIN H /\ IsText(H, n) /\ H[n].val = <<0>>}})

InitTree ==
    /\ style = Bold
    /\ dom \in TreeDocs
    /\ mode = ""
    /\ sel = NoSelection
    /\ pc = "idle"
    /\ queue = <<>>
    /\ selInfo = <<>>
    /\ savedOff = <<>>
    /\ live = <<>>
    /\ selOff = <<>>
    /\ hist = <<>>
    /\ call = NoCall
    /\ stack = <<>>
    /\ seen = <<>>
    /\ owed = {}
    /\ log = <<>>
    /\ modules = <<>>
    /\ jodit = <<>>
    /\ frames = <<>>

\* Dom.next(node, condition, root) and Dom.prev(node, condition, root), with
\* node in the subtree of root and condition given by the set C of the nodes
\* it is true on; Dom.find with its default arguments is Dom.next
CallFind ==
    /\ pc = "idle" /\ log = <<>>
    /\ \E root \in DOMAIN dom :
       \E node \in Subtree(dom, root), C \in SUBSET DOMAIN dom, op \in {"next", "prev"} :
       \E r \in {IF op = "next" THEN DomNext(dom, node, C, root, TRUE)
                 ELSE DomPrev(dom, node, C, root, TRUE)} :
          log' = <<[op |-> op, node |-> node, root |-> root, C |-> C,
                    ret |-> r.res, calls |-> r.calls]>>
    /\ pc' = "done"
    /\ UNCHANGED <<dom, style, mode, sel, queue, selInfo, savedOff, live, selOff,
                   hist, call, stack, seen, owed, modules, jodit, frames>>

\* Dom.up(node, condition, root), and Dom.closest(node, tag, root), whose
\* condition is true on the elements of that tag
CallUp ==
    /\ pc = "idle" /\ log = <<>>
    /\ \E root \in DOMAIN dom :
       \E node \in Subtree(dom, root), op \in {"up", "closest"} :
       \E C \in IF op = "up" THEN SUBSET DOMAIN dom
                ELSE {{n \in DOMAIN dom : dom[n].tag = t} : t \in {"div", "span", "p"}} :
          log' = <<[op |-> op, node |-> node, root |-> root, C |-> C,
                    ret |-> IF op = "up" THEN Up(dom, node, C, root)
                            ELSE Closest(dom, node, C, root),
                    calls |-> UpTrace(dom, node, C, root)]>>
    /\ pc' = "done"
    /\ UNCHANGED <<dom, style, mode, sel, queue, selInfo, savedOff, live, selOff,
                   hist, call, stack, seen, owed, modules, jodit, frames>>

\* Dom.isEmpty(node), node missing included
CallIsEmpty ==
    /\ pc = "idle" /\ log = <<>>
    /\ \E node \in DOMAIN dom \cup {Null} :
          log' = <<[op |-> "isEmpty", node |-> node, root |-> node, C |-> {},
                    ret |-> IsEmpty(dom, node), calls |-> <<>>]>>
    /\ pc' = "done"
    /\ UNCHANGED <<dom, style, mode, sel, queue, selInfo, savedOff, live, selOff,
                   hist, call, stack, seen, owed, modules, jodit, frames>>

NextQuery ==
    \/ CallFind
    \/ CallUp
    \/ CallIsEmpty

SpecQuery == InitTree /\ [][NextQuery]_vars

\* ---- the mutators of Dom, called one after another on nodes of a document
\* calls in a row
MaxOps == 2

\* the nodes a mutator can be given: those of the document and those taken
\* out of it, no fragment
Given(H) == {n \in DOMAIN H : H[n].tag # "#fragment"}

GivenElements(H) == {n \in Given(H) : IsElement(H, n)}

\* another call can be made
MayCall ==
    /\ pc \in {"idle", "mut"}
    /\ (IF log = <<>> THEN 0 ELSE log[1].n) < MaxOps

\* one call: the tree it leaves, what it returned and whether it threw; log
\* keeps the last call, the tree it was made on and the number of calls
Mutate(op, node, arg, H, ret, threw) ==
    /\ dom' = H
    /\ log' = <<[op |-> op, node |-> node, arg |-> arg, ret |-> ret,
                 threw |-> threw, before |-> dom,
                 n |-> IF log = <<>> THEN 1 ELSE log[1].n + 1]>>
    /\ pc' = "mut"
    /\ UNCHANGED <<style, mode, sel, queue, selInfo, savedOff, live, selOff,
                   hist, call, stack, seen, owed, modules, jodit, frames>>

CallUnwrap ==
    /\ MayCall
    /\ \E node \in Given(dom) :
           Mutate("unwrap", node, Null, Unwrap(dom, node), Null, FALSE)

CallWrap ==
    /\ MayCall
    /\ \E current \in Given(dom), tag \in WrapTags :
       \E r \in {Wrap(dom, current, tag, sel)} :
           Mutate("wrap", current, Null, r.H, r.ret, FALSE)

CallWrapInline ==
    /\ MayCall
    /\ \E current \in Given(dom), tag \in WrapTags :
       \E r \in {WrapInline(dom, current, tag, sel)} :
           Mutate("wrapInline", current, Null, r.H, r.ret, FALSE)

\* Dom.replace(elm, tag, create), the content moved
CallReplace ==
    /\ MayCall
    /\ \E elm \in GivenElements(dom), tag \in WrapTags :
           Mutate("replace", elm, Null, Replace(dom, elm, tag, FALSE, FALSE),
                  NewId(dom), FALSE)

CallMoveContent ==
    /\ MayCall
    /\ \E from \in GivenElements(dom), to \in GivenElements(dom), inStart \in BOOLEAN :
       \E r \in {MoveContent(dom, from, to, inStart)} :
           Mutate("moveContent", from, to, r.H, Null, r.threw)

CallAfter ==
    /\ MayCall
    /\ \E elm \in GivenElements(dom), newElement \in Given(dom) :
       \E r \in {AfterElement(dom, elm, newElement)} :
           Mutate("after", elm, newElement, r.H, Null, r.threw)

CallAppendChildFirst ==
    /\ MayCall
    /\ \E root \in GivenElements(dom), newElement \in Given(dom) :
       \E r \in {AppendChildFirst(dom, root, newElement)} :
           Mutate("appendChildFirst", root, newElement, r.H, Null, r.threw)

\* Dom.safeRemove(node), node null included
CallSafeRemove ==
    /\ MayCall
    /\ \E node \in Given(dom) \cup {Null} :
           Mutate("safeRemove", node, Null, SafeRemove(dom, node), Null, FALSE)

NextMut ==
    \/ CallUnwrap
    \/ CallWrap
    \/ CallWrapInline
    \/ CallReplace
    \/ CallMoveContent
    \/ CallAfter
    \/ CallAppendChildFirst
    \/ CallSafeRemove

\* the documents the mutators start from: text, inline elements and blocks
InitMut ==
    /\ InitTree
    /\ Len(dom) <= MaxNodes + 1
    /\ \A n \in DOMAIN dom :
          /\ dom[n].tag # "img"
          /\ IsText(dom, n) => dom[n].val = <<n>>

SpecMut == InitMut /\ [][NextMut]_vars

\* ------------------------------------------------ the editor object
\* characters of an HTML string
MaxLen == 2

\* open calls of setEditorValue and setElementValue
MaxDepth == 5

\* HTML strings: a letter, the invisible space, "<br>", and a piece of
\* markup ("u") that reads back from innerHTML in another form ("c")
HtmlStrings == UNION {[1 .. n -> {"a", "i", "br", "u", "c"}] : n \in 0 .. MaxLen}

\* what element.innerHTML returns when s was assigned to it
InnerHTML(s) == [k \in DOMAIN s |-> IF s[k] = "u" THEN "c" ELSE s[k]]

\* Jodit.getInstance: J is the object, the result its fields, the instance
\* returned (0 for none) and whether an error was thrown.  The registry
\* holds a class, a value that is no function, or nothing under a name;
\* `new` of what is no function throws.
GetInstanceJodit(mods, J, moduleName) ==
    IF mods[moduleName] = "undefined" THEN [J |-> J, ret |-> 0, threw |-> TRUE]
    ELSE IF J.modulesInstances[moduleName] = 0
    THEN IF mods[moduleName] # "class" THEN [J |-> J, ret |-> 0, threw |-> TRUE]
         ELSE [J |-> [J EXCEPT !.modulesInstances[moduleName] = J.made + 1,
                               !.made = @ + 1],
               ret |-> J.made + 1, threw |-> FALSE]
    ELSE [J |-> J, ret |-> J.modulesInstances[moduleName], threw |-> FALSE]

\* getInstance of the abstract View
GetInstanceAbstractView(mods, J, moduleName) ==
    IF mods[moduleName] # "class" THEN [J |-> J, ret |-> 0, threw |-> TRUE]
    ELSE IF J.modulesInstances[moduleName] = 0
    THEN [J |-> [J EXCEPT !.modulesInstances[moduleName] = J.made + 1,
                          !.made = @ + 1],
          ret |-> J.made + 1, threw |-> FALSE]
    ELSE [J |-> J, ret |-> J.modulesInstances[moduleName], threw |-> FALSE]

\* getInstance of the View of the modules
GetInstanceView(mods, J, moduleName) ==
    IF mods[moduleName] = "class" THEN [J |-> J, ret |-> 0, threw |-> TRUE]
    ELSE IF J.modulesInstances[moduleName] = 0
    THEN [J |-> J, ret |-> 0, threw |-> TRUE]
    ELSE [J |-> J, ret |-> J.modulesInstances[moduleName], threw |-> FALSE]

\* Jodit.getElementValue; <<"undefined">> stands for undefined
GetElementValue(J) ==
    IF J.element.value # <<"undefined">> THEN J.element.value ELSE J.element.innerHTML

\* Jodit.getEditorValue of a live editor without listeners
GetEditorValue(J) ==
    With(SelectSeq(J.editor.innerHTML, LAMBDA c : c # "i"), LAMBDA value :
      IF value = <<"br">> THEN <<>> ELSE value)

\* An editor (Jodit) when its constructor is at its last step, the call of
\* setElementValue(): the source element is a textarea or a div with some
\* content, the editor is still empty.  A view has no source element.  No
\* listener of beforeCommand and no command handler is registered; the
\* browser's execCommand returns true.
InitJodit ==
    /\ dom = <<NewNode("div")>>
    /\ style = Bold /\ mode = "" /\ sel = NoSelection /\ pc = "idle"
    /\ queue = <<>> /\ selInfo = <<>> /\ savedOff = <<>> /\ live = <<>>
    /\ selOff = <<>> /\ hist = <<>> /\ call = NoCall
    /\ stack = <<>> /\ seen = <<>> /\ owed = {} /\ log = <<>>
    /\ modules \in [{"Dom", "Nope"} -> {"class", "value", "undefined"}]
    /\ \E kind \in {"Jodit", "AbstractView", "View"}, isInput \in BOOLEAN,
          readonly \in BOOLEAN, content \in HtmlStrings :
          /\ kind # "Jodit" => isInput /\ ~readonly /\ content = <<>>
          /\ jodit = [kind |-> kind,
                      modulesInstances |-> [m \in DOMAIN modules |-> 0],
                      made |-> 0,
                      readonly |-> readonly,
                      onBeforeCommand |-> "undefined",
                      commands |-> <<>>,
                      native |-> "true",
                      element |-> IF isInput
                                  THEN [value |-> content, innerHTML |-> <<>>]
                                  ELSE [value |-> <<"undefined">>,
                                        innerHTML |-> InnerHTML(content)],
                      editor |-> [innerHTML |-> <<>>]]
          /\ frames = IF kind = "Jodit"
                      THEN <<[fn |-> "setElementValue", value |-> <<"undefined">>,
                              at |-> "entry"]>>
                      ELSE <<>>

\* getInstance(moduleName) is called on the object
GetInstance ==
    /\ frames = <<>>
    /\ \E moduleName \in DOMAIN modules :
       \E r \in {CASE jodit.kind = "Jodit" -> GetInstanceJodit(modules, jodit, moduleName)
                   [] jodit.kind = "AbstractView" ->
                          GetInstanceAbstractView(modules, jodit, moduleName)
                   [] OTHER -> GetInstanceView(modules, jodit, moduleName)} :
          /\ jodit' = r.J
          /\ log' = <<[op |-> "getInstance", name |-> moduleName, ret |-> r.ret,
                       threw |-> r.threw, had |-> jodit.modulesInstances[moduleName]]>>
    /\ UNCHANGED <<dom, style, mode, sel, pc, queue, selInfo, savedOff, live, selOff,
                   hist, call, stack, seen, owed, modules, frames>>

\* setEditorValue(value) or setEditorValue() is called
CallSetEditorValue ==
    /\ frames = <<>> /\ jodit.kind = "Jodit"
    /\ \E value \in HtmlStrings \cup {<<"undefined">>} :
          /\ frames' = <<[fn |-> "setEditorValue", value |-> value, at |-> "entry"]>>
          /\ log' = <<[op |-> "setEditorValue"]>>
    /\ UNCHANGED <<dom, style, mode, sel, pc, queue, selInfo, savedOff, live, selOff,
                   hist, call, stack, seen, owed, modules, jodit>>

\* setElementValue(value) or setElementValue() is called
CallSetElementValue ==
    /\ frames = <<>> /\ jodit.kind = "Jodit"
    /\ \E value \in HtmlStrings \cup {<<"undefined">>} :
          /\ frames' = <<[fn |-> "setElementValue", value |-> value, at |-> "entry"]>>
          /\ log' = <<[op |-> "setElementValue"]>>
    /\ UNCHANGED <<dom, style, mode, sel, pc, queue, selInfo, savedOff, live, selOff,
                   hist, call, stack, seen, owed, modules, jodit>>

\* handlers registered for one command
MaxHandlers == 2

\* one step of a command: the event fired or the function called, and what
\* it returned
Fired(ev, ret) == [ev |-> ev, ret |-> ret]

\* (handlers registered for a command that are never called)
ExecNoCustomCommands(commands) == [steps |-> <<>>, result |-> "undefined"]

\* Jodit.execCustomCommands: every handler registered for the command is
\* called; the result is the last result that is not undefined
ExecCustomCommands(commands) ==
    With(SelectSeq(commands, LAMBDA r : r # "undefined"), LAMBDA defined :
      [steps |-> [i \in DOMAIN commands |-> Fired("handler", commands[i])],
       result |-> IF defined = <<>> THEN "undefined" ELSE defined[Len(defined)]])

\* Jodit.execCommand on an editor that is not read-only, up to its call of
\* setEditorValue(): the steps it takes and the value it will return
ExecCommandSteps(J) ==
    With(J.onBeforeCommand, LAMBDA before :
    With(IF before # "false" THEN ExecCustomCommands(J.commands)
         ELSE [steps |-> <<>>, result |-> before], LAMBDA custom :
      [steps |-> <<Fired("beforeCommand", before)>> \o custom.steps
                 \o (IF custom.result # "false"
                     THEN <<Fired("native", J.native)>> ELSE <<>>)
                 \o <<Fired("afterCommand", "undefined"),
                      Fired("setEditorValue", "undefined")>>,
       ret |-> IF custom.result # "false" /\ J.native # "throws" THEN J.native
               ELSE custom.result]))

\* execCommand(command): nothing when the editor is read-only; otherwise
\* beforeCommand, the handlers, the native command, afterCommand, which
\* leave some content in the editor, and setEditorValue() is called
ExecCommand ==
    /\ frames = <<>> /\ jodit.kind = "Jodit"
    /\ IF jodit.readonly
       THEN /\ log' = <<[op |-> "execCommand", steps |-> <<>>, ret |-> "undefined",
                         before |-> jodit]>>
            /\ UNCHANGED <<jodit, frames>>
       ELSE \E content \in HtmlStrings :
            \E run \in {ExecCommandSteps(jodit)} :
               /\ jodit' = [jodit EXCEPT !.editor.innerHTML = InnerHTML(content)]
               /\ frames' = <<[fn |-> "setEditorValue", value |-> <<"undefined">>,
                               at |-> "entry"]>>
               /\ log' = <<[op |-> "execCommand", steps |-> run.steps,
                            ret |-> run.ret, before |-> <<>>]>>
    /\ UNCHANGED <<dom, style, mode, sel, pc, queue, selInfo, savedOff, live, selOff,
                   hist, call, stack, seen, owed, modules>>

\* Jodit.setElementValue, from its entry to the call of setEditorValue, for
\* whose return it then waits ("called"), or to its end
SetElementValue ==
    /\ frames # <<>>
    /\ frames[Len(frames)].fn = "setElementValue" /\ frames[Len(frames)].at = "entry"
    /\ \E given \in {frames[Len(frames)].value} :
       \E J \in {IF given = <<"undefined">> THEN jodit
                 ELSE IF jodit.element.value # <<"undefined">>
                 THEN [jodit EXCEPT !.element.value = given]
                 ELSE [jodit EXCEPT !.element.innerHTML = InnerHTML(given)]} :
       \E value \in {IF given = <<"undefined">> THEN GetElementValue(jodit) ELSE given} :
          /\ jodit' = J
          /\ IF value # GetEditorValue(J)
             THEN /\ Len(frames) < MaxDepth
                  /\ frames' = [frames EXCEPT ![Len(frames)].at = "called"]
                             \o <<[fn |-> "setEditorValue", value |-> value, at |-> "entry"]>>
             ELSE frames' = SubSeq(frames, 1, Len(frames) - 1)
    /\ UNCHANGED <<dom, style, mode, sel, pc, queue, selInfo, savedOff, live, selOff,
                   hist, call, stack, seen, owed, log, modules>>

\* (a setEditorValue that fills the editor and leaves the source element as
\* it is)
SetEditorValueAlone ==
    /\ frames # <<>>
    /\ frames[Len(frames)].fn = "setEditorValue" /\ frames[Len(frames)].at = "entry"
    /\ \E value \in {frames[Len(frames)].value} :
          jodit' = IF value # <<"undefined">> /\ jodit.editor.innerHTML # value
                   THEN [jodit EXCEPT !.editor.innerHTML = InnerHTML(value)]
                   ELSE jodit
    /\ frames' = SubSeq(frames, 1, Len(frames) - 1)
    /\ UNCHANGED <<dom, style, mode, sel, pc, queue, selInfo, savedOff, live, selOff,
                   hist, call, stack, seen, owed, log, modules>>

\* Jodit.setEditorValue, from its entry to the call of setElementValue or to
\* its end
SetEditorValue ==
    /\ frames # <<>>
    /\ frames[Len(frames)].fn = "setEditorValue" /\ frames[Len(frames)].at = "entry"
    /\ \E value \in {frames[Len(frames)].value} :
       \E J \in {IF value # <<"undefined">> /\ jodit.editor.innerHTML # value
                 THEN [jodit EXCEPT !.editor.innerHTML = InnerHTML(value)]
                 ELSE jodit} :
       \E old_value \in {GetElementValue(J)}, new_value \in {GetEditorValue(J)} :
          /\ jodit' = J
          /\ IF old_value # new_value
             THEN /\ Len(frames) < MaxDepth
                  /\ frames' = [frames EXCEPT ![Len(frames)].at = "called"]
                             \o <<[fn |-> "setElementValue", value |-> new_value, at |-> "entry"]>>
             ELSE frames' = SubSeq(frames, 1, Len(frames) - 1)
    /\ UNCHANGED <<dom, style, mode, sel, pc, queue, selInfo, savedOff, live, selOff,
                   hist, call, stack, seen, owed, log, modules>>

\* the call made by the innermost open call has returned: setEditorValue
\* fires 'change' and returns, setElementValue returns
Return ==
    /\ frames # <<>>
    /\ frames[Len(frames)].at = "called"
    /\ frames' = SubSeq(frames, 1, Len(frames) - 1)
    /\ UNCHANGED <<dom, style, mode, sel, pc, queue, selInfo, savedOff, live, selOff,
                   hist, call, stack, seen, owed, log, modules, jodit>>

NextJodit ==
    \/ GetInstance
    \/ CallSetEditorValue
    \/ CallSetElementValue
    \/ ExecCommand
    \/ SetElementValue
    \/ SetEditorValue
    \/ Return

\* a call that was made runs on: JavaScript runs a function to its end
SpecJodit ==
    /\ InitJodit /\ [][NextJodit]_vars
    /\ WF_vars(SetElementValue) /\ WF_vars(SetEditorValue) /\ WF_vars(Return)

\* ------------------------------------------- commands and their handlers
\* An editor on a textarea when its constructor is at its last step; a
\* listener of beforeCommand that returns false or nothing may be there, and
\* the browser's execCommand returns true or false, or throws
InitCommand ==
    /\ dom = <<NewNode("div")>>
    /\ style = Bold /\ mode = "" /\ sel = NoSelection /\ pc = "idle"
    /\ queue = <<>> /\ selInfo = <<>> /\ savedOff = <<>> /\ live = <<>>
    /\ selOff = <<>> /\ hist = <<>> /\ call = NoCall
    /\ stack = <<>> /\ seen = <<>> /\ owed = {} /\ log = <<>>
    /\ modules = [m \in {"Dom", "Nope"} |-> "class"]
    /\ \E readonly \in BOOLEAN, content \in HtmlStrings,
          before \in {"undefined", "false"}, native \in {"true", "false", "throws"} :
          jodit = [kind |-> "Jodit",
                   modulesInstances |-> [m \in DOMAIN modules |-> 0],
                   made |-> 0,
                   readonly |-> readonly,
                   onBeforeCommand |-> before,
                   commands |-> <<>>,
                   native |-> native,
                   element |-> [value |-> content, innerHTML |-> <<>>],
                   editor |-> [innerHTML |-> <<>>]]
    /\ frames = <<[fn |-> "setElementValue", value |-> <<"undefined">>,
                   at |-> "entry"]>>

\* Jodit.registerCommand(commandName, command) with a handler that returns
\* false, true or nothing; the handlers are registered before the command is
\* first executed
RegisterCommand ==
    /\ frames = <<>> /\ Len(jodit.commands) < MaxHandlers
    /\ log = <<>>
    /\ \E result \in {"false", "true", "undefined"} :
          jodit' = [jodit EXCEPT !.commands = Append(@, result)]
    /\ UNCHANGED <<dom, style, mode, sel, pc, queue, selInfo, savedOff, live, selOff,
                   hist, call, stack, seen, owed, log, modules, frames>>

NextCommand ==
    \/ RegisterCommand
    \/ ExecCommand
    \/ SetElementValue
    \/ SetEditorValue
    \/ Return

SpecCommand == InitCommand /\ [][NextCommand]_vars

\* ----------------------------------------- editor modes and the resizer
MODE_WYSIWYG == 1
MODE_SOURCE == 2
MODE_SPLIT == 3

\* images in the editor that the resizer can be bound to
MaxImages == 2
Images == 1 .. MaxImages

\* modes asked of setMode, valid or not
ModeRequests == 0 .. MODE_SPLIT + 1

\* setMode: the class of the container for each mode
ModeClasses == <<"jodit_wysiwyg_mode", "jodit_source_mode", "jodit_split_mode">>

\* Jodit.setMode(mode) on the editor J, with a beforeSetMode listener that
\* returns false (veto) or not
JoditSetMode(J, requested, veto) ==
    IF veto THEN J
    ELSE With(IF requested \in {MODE_SOURCE, MODE_WYSIWYG, MODE_SPLIT}
              THEN requested ELSE MODE_WYSIWYG, LAMBDA m :
           [J EXCEPT !.mode = m,
                     !.classes = (@ \ Range(ModeClasses)) \cup {ModeClasses[m]}])

\* Jodit.toggleMode: the mode it asks setMode for
ToggleModeTo(J) ==
    IF J.mode + 1 \in {MODE_SOURCE, MODE_WYSIWYG,
                       IF J.useSplitMode THEN MODE_SPLIT ELSE 9}
    THEN J.mode + 1 ELSE MODE_WYSIWYG

\* resizer.hide
Hide(J) ==
    [J EXCEPT !.resizer.isResized = FALSE, !.resizer.isShown = FALSE,
              !.resizer.element = 0, !.resizer.attached = FALSE]

\* resizer.show
Show(J) ==
    IF J.readonly \/ J.resizer.isShown THEN J
    ELSE [J EXCEPT !.resizer.isShown = TRUE, !.resizer.attached = TRUE]

\* The editor at the end of its constructor: the mode field starts as
\* MODE_WYSIWYG, the container has no mode class, the resizer plugin is
\* initialised and hidden, then setMode(options.defaultMode) is called, which
\* a beforeSetMode listener given in options.events may stop, and
\* setReadOnly(true) if options.readonly
InitEditor ==
    /\ dom = <<NewNode("div")>>
    /\ style = Bold /\ mode = "" /\ sel = NoSelection /\ pc = "idle"
    /\ queue = <<>> /\ selInfo = <<>> /\ savedOff = <<>> /\ live = <<>>
    /\ selOff = <<>> /\ hist = <<>> /\ call = NoCall
    /\ stack = <<>> /\ seen = <<>> /\ owed = {} /\ log = <<>>
    /\ modules = [m \in {"Dom", "Nope"} |-> "class"]
    /\ frames = <<>>
    /\ \E readonly \in BOOLEAN, useSplitMode \in BOOLEAN,
          defaultMode \in ModeRequests, veto \in BOOLEAN, present \in SUBSET Images :
          jodit = JoditSetMode([kind |-> "Editor",
                                readonly |-> readonly,
                                useSplitMode |-> useSplitMode,
                                mode |-> MODE_WYSIWYG,
                                classes |-> {},
                                whoLocked |-> "",
                                images |-> present,
                                bound |-> {},
                                resizer |-> [element |-> 0, isResized |-> FALSE,
                                             isShown |-> FALSE, attached |-> FALSE,
                                             listening |-> FALSE]],
                               defaultMode, veto)

\* setMode(mode) called on the editor
CallSetMode ==
    /\ jodit.kind = "Editor"
    /\ \E requested \in ModeRequests, veto \in BOOLEAN :
          /\ jodit' = JoditSetMode(jodit, requested, veto)
          /\ log' = <<[op |-> "setMode", requested |-> requested, veto |-> veto,
                       before |-> jodit]>>
    /\ UNCHANGED <<dom, style, mode, sel, pc, queue, selInfo, savedOff, live, selOff,
                   hist, call, stack, seen, owed, modules, frames>>

\* toggleMode() called on the editor
ToggleMode ==
    /\ jodit.kind = "Editor"
    /\ \E veto \in BOOLEAN :
          /\ jodit' = JoditSetMode(jodit, ToggleModeTo(jodit), veto)
          /\ log' = <<[op |-> "toggleMode", requested |-> ToggleModeTo(jodit),
                       veto |-> veto, before |-> jodit]>>
    /\ UNCHANGED <<dom, style, mode, sel, pc, queue, selInfo, savedOff, live, selOff,
                   hist, call, stack, seen, owed, modules, frames>>

\* setReadOnly(isReadOnly): the resizer's listener of 'readonly' hides it
SetReadOnly ==
    /\ jodit.kind = "Editor"
    /\ \E isReadOnly \in BOOLEAN :
          jodit' = IF isReadOnly THEN Hide([jodit EXCEPT !.readonly = TRUE])
                   ELSE [jodit EXCEPT !.readonly = FALSE]
    /\ log' = <<[op |-> "readonly"]>>
    /\ UNCHANGED <<dom, style, mode, sel, pc, queue, selInfo, savedOff, live, selOff,
                   hist, call, stack, seen, owed, modules, frames>>

\* content of the editor changes: images come and go
ChangeContent ==
    /\ jodit.kind = "Editor"
    /\ \E present \in SUBSET Images :
          /\ present # jodit.images
          /\ jodit' = [jodit EXCEPT !.images = present]
    /\ log' = <<[op |-> "content"]>>
    /\ UNCHANGED <<dom, style, mode, sel, pc, queue, selInfo, savedOff, live, selOff,
                   hist, call, stack, seen, owed, modules, frames>>

\* resizer.onChangeEditor, run some time after change and afterSetMode
OnChangeEditor ==
    /\ jodit.kind = "Editor"
    /\ \E J \in {IF jodit.resizer.isShown /\ jodit.resizer.element \notin jodit.images
                 THEN Hide(jodit) ELSE jodit} :
          jodit' = IF J.mode = MODE_SOURCE THEN J
                   ELSE [J EXCEPT !.bound = @ \cup J.images]
    /\ log' = <<[op |-> "change"]>>
    /\ UNCHANGED <<dom, style, mode, sel, pc, queue, selInfo, savedOff, live, selOff,
                   hist, call, stack, seen, owed, modules, frames>>

\* click on an image the resizer is bound to: resizer.onClickElement
OnClickElement ==
    /\ jodit.kind = "Editor"
    /\ \E element \in jodit.images \cap jodit.bound :
          jodit' = IF jodit.resizer.element # element \/ ~jodit.resizer.isShown
                   THEN Show([jodit EXCEPT !.resizer.element = element])
                   ELSE jodit
    /\ log' = <<[op |-> "click"]>>
    /\ UNCHANGED <<dom, style, mode, sel, pc, queue, selInfo, savedOff, live, selOff,
                   hist, call, stack, seen, owed, modules, frames>>

\* dragstart on an image the resizer is bound to
OnDragStart ==
    /\ jodit.kind = "Editor"
    /\ jodit.images \cap jodit.bound # {}
    /\ jodit' = Hide(jodit)
    /\ log' = <<[op |-> "dragstart"]>>
    /\ UNCHANGED <<dom, style, mode, sel, pc, queue, selInfo, savedOff, live, selOff,
                   hist, call, stack, seen, owed, modules, frames>>

\* the event hideResizer is fired
OnHideResizer ==
    /\ jodit.kind = "Editor"
    /\ jodit' = Hide(jodit)
    /\ log' = <<[op |-> "hideResizer"]>>
    /\ UNCHANGED <<dom, style, mode, sel, pc, queue, selInfo, savedOff, live, selOff,
                   hist, call, stack, seen, owed, modules, frames>>

\* mousedown or touchstart on a handle of the frame, which is in the
\* workplace: resizer.onClickHandle
OnClickHandle ==
    /\ jodit.kind = "Editor"
    /\ jodit.resizer.attached
    /\ jodit' = IF jodit.resizer.element \notin jodit.images THEN Hide(jodit)
                ELSE [jodit EXCEPT !.resizer.isResized = TRUE,
                                   !.whoLocked = "resizer",
                                   !.classes = @ \cup {"jodit_disabled"},
                                   !.resizer.listening = TRUE]
    /\ log' = <<[op |-> "mousedown"]>>
    /\ UNCHANGED <<dom, style, mode, sel, pc, queue, selInfo, savedOff, live, selOff,
                   hist, call, stack, seen, owed, modules, frames>>

\* mouseup, keydown or touchend on the window: resizer.onClickOutside
OnClickOutside ==
    /\ jodit.kind = "Editor"
    /\ jodit' = IF ~jodit.resizer.isShown THEN jodit
                ELSE IF jodit.resizer.isResized
                THEN [jodit EXCEPT !.whoLocked = "",
                                   !.classes = @ \ {"jodit_disabled"},
                                   !.resizer.isResized = FALSE,
                                   !.resizer.listening = FALSE]
                ELSE Hide(jodit)
    /\ log' = <<[op |-> "mouseup"]>>
    /\ UNCHANGED <<dom, style, mode, sel, pc, queue, selInfo, savedOff, live, selOff,
                   hist, call, stack, seen, owed, modules, frames>>

\* scroll of the window or of the editor
OnScroll ==
    /\ jodit.kind = "Editor"
    /\ jodit' = IF jodit.resizer.isShown /\ ~jodit.resizer.isResized
                THEN Hide(jodit) ELSE jodit
    /\ log' = <<[op |-> "scroll"]>>
    /\ UNCHANGED <<dom, style, mode, sel, pc, queue, selInfo, savedOff, live, selOff,
                   hist, call, stack, seen, owed, modules, frames>>

NextEditor ==
    \/ CallSetMode
    \/ ToggleMode
    \/ SetReadOnly
    \/ ChangeContent
    \/ OnChangeEditor
    \/ OnClickElement
    \/ OnDragStart
    \/ OnHideResizer
    \/ OnClickHandle
    \/ OnClickOutside
    \/ OnScroll

SpecEditor == InitEditor /\ [][NextEditor]_vars

\* ------------------------------------------------------- the justify plugin
\* nodes of one selection that eachSelection calls the callback on
MaxSelected == 2

\* the CSS property text-align among the properties of an element
TextAlign == "p2"

\* the commands the plugin registers its callback for
JustifyCommands == {"justifyfull", "justifyright", "justifyleft", "justifycenter"}

\* clearAlign(node): Dom.each over node with a callback that takes text-align
\* from the elements that have it; child is where the loop of Dom.each stands
RECURSIVE ClearAlign(_, _, _)
ClearAlign(H, elm, child) ==
    IF child = Null THEN H
    ELSE With(EachNext(H, H, child, elm), LAMBDA next :
         With(IF IsElement(H, child) /\ CssGet(H, child, TextAlign) # ""
              THEN CssSet(H, child, TextAlign, "") ELSE H, LAMBDA H1 :
         With(IF Parent(H1, child) # Null
              THEN ClearAlign(H1, child, FirstChild(H1, child)) ELSE H1, LAMBDA H2 :
           ClearAlign(H2, elm, next))))

\* (an alignElement that leaves the elements inside the box alone)
AlignBoxOnly(H, command, box) ==
    IF ~IsElement(H, box) THEN H
    ELSE CssSet(H, box, TextAlign,
                CASE command = "justifyfull" -> "justify"
                  [] command = "justifyright" -> "right"
                  [] command = "justifyleft" -> "left"
                  [] command = "justifycenter" -> "center"
                  [] OTHER -> CssGet(H, box, TextAlign))

\* alignElement(command, box, editor)
AlignElement(H, command, box) ==
    IF ~IsElement(H, box) THEN H
    ELSE CssSet(ClearAlign(H, box, FirstChild(H, box)), box, TextAlign,
                CASE command = "justifyfull" -> "justify"
                  [] command = "justifyright" -> "right"
                  [] command = "justifyleft" -> "left"
                  [] command = "justifycenter" -> "center"
                  [] OTHER -> CssGet(H, box, TextAlign))

\* a document of text, inline elements and blocks, some of its elements
\* aligned to the left
InitJustify ==
    /\ style = Bold /\ mode = "" /\ sel = NoSelection /\ pc = "idle"
    /\ queue = <<>> /\ selInfo = <<>> /\ savedOff = <<>> /\ live = <<>>
    /\ selOff = <<>> /\ hist = <<>> /\ call = NoCall
    /\ stack = <<>> /\ seen = <<>> /\ owed = {} /\ log = <<>>
    /\ modules = <<>> /\ jodit = <<>> /\ frames = <<>>
    /\ \E H \in TreeDocs :
          /\ Len(H) <= MaxNodes + 1
          /\ \A n \in DOMAIN H : /\ H[n].tag # "img"
                                 /\ IsText(H, n) => H[n].val = <<n>>
          /\ \E aligned \in SUBSET {n \in Descendants(H, Root) : IsElement(H, n)} :
                dom = [n \in DOMAIN H |->
                         IF n \in aligned THEN [H[n] EXCEPT !.st[TextAlign] = "left"]
                         ELSE H[n]]

\* a justify command is executed: selection.eachSelection will call the
\* callback on the selected nodes, up to MaxSelected of them, in the order of
\* the document
Justify ==
    /\ pc = "idle" /\ call = NoCall
    /\ \E command \in JustifyCommands :
          call' = [op |-> command, node |-> Null, ret |-> Null]
    /\ \E selected \in UNION {[1 .. k -> Descendants(dom, Root)] : k \in 1 .. MaxSelected} :
          /\ \A i \in DOMAIN selected : \A j \in DOMAIN selected :
                i < j => Precedes(dom, selected[i], selected[j])
          /\ queue' = selected
    /\ pc' = "justify"
    /\ UNCHANGED <<dom, log>>
    /\ UNCHANGED <<style, mode, sel, selInfo, savedOff, live, selOff,
                   hist, stack, seen, owed, modules, jodit, frames>>

\* the callback given to eachSelection, called on the next selected node
JustifyCurrent ==
    /\ pc = "justify" /\ queue # <<>>
    /\ \E current \in {Head(queue)} :
       \E currentBox \in {Up(dom, current, {n \in DOMAIN dom : IsBlock(dom, n)}, Root)} :
       \E r \in {IF currentBox # Null THEN [H |-> dom, ret |-> currentBox]
                 ELSE WrapInline(dom, current, "p", sel)} :
          /\ dom' = AlignElement(r.H, call.op, r.ret)
          /\ log' = Append(log, [current |-> current, box |-> r.ret, before |-> dom,
                                 after |-> AlignElement(r.H, call.op, r.ret)])
    /\ queue' = Tail(queue)
    /\ pc' = IF Tail(queue) = <<>> THEN "done" ELSE "justify"
    /\ UNCHANGED call
    /\ UNCHANGED <<style, mode, sel, selInfo, savedOff, live, selOff,
                   hist, stack, seen, owed, modules, jodit, frames>>

NextJustify ==
    \/ Justify
    \/ JustifyCurrent

SpecJustify == InitJustify /\ [][NextJustify]_vars

\* ------------------------------------------------------------ properties
\* the pass that is running, or that ran last
Pass == hist[Len(hist)]

InPass == pc \in {"caret", "frags"} /\ queue # <<>>

\* node x lies in an element that is suitable for the style
Styled(H, x) ==
    \E a \in Ancestors(H, x) :
        a # Root /\ InTree(H, a) /\ IsSuitableElement(H, a, FALSE, style)

\* the content of the fragment that is processed next
FragmentNodes == Descendants(dom, queue[1])

\* C1: during one pass the mode changes at most once: once it is WRAP or
\* UNWRAP no call of applyToElement or toggleStyles changes it.
C1_ModeHeld == [][(InPass /\ mode # "") => mode' = mode]_vars

\* a pass of two fragments has run with the mode set by the first
C1_Witness ==
    /\ pc = "frags" /\ queue = <<>> /\ mode # ""
    /\ Pass.mode = "" /\ Len(Pass.sel.runs) = 2

\* C2: once the mode is UNWRAP, no fragment of the pass is wrapped in the
\* style's element or given the style's CSS properties.
C2_NoWrapUnderUnwrap ==
    [][(InPass /\ mode = "UNWRAP") =>
          /\ \A x \in FragmentNodes :
                InTree(dom', x) /\ Styled(dom', x) => Styled(dom, x)
          /\ \A n \in TreeNodes(dom') \cap DOMAIN dom :
                \A k \in Props : dom'[n].st[k] # "" => dom[n].st[k] = dom'[n].st[k]
      ]_vars

\* the first fragment of a pass set the mode to UNWRAP and the second one,
\* processed alone, would be wrapped
C2_Witness ==
    /\ pc = "frags" /\ Len(queue) = 1 /\ mode = "UNWRAP"
    /\ Pass.mode = "" /\ Len(Pass.sel.runs) = 2
    /\ LET S == ApplyToElement([H |-> dom, mode |-> ""], queue[1], style) IN
       /\ S.mode = "WRAP"
       /\ \E x \in FragmentNodes : Styled(S.H, x) /\ ~Styled(dom, x)

\* C3: once the mode is WRAP, no fragment of the pass loses the style: no
\* suitable element around it is unwrapped, no style property is cleared.
C3_NoUnwrapUnderWrap ==
    [][(InPass /\ mode = "WRAP" /\ Pass.mode = "") =>
          /\ \A x \in FragmentNodes :
                InTree(dom', x) /\ Styled(dom, x) => Styled(dom', x)
          /\ \A n \in TreeNodes(dom') \cap DOMAIN dom :
                \A k \in Props : dom[n].st[k] # "" => dom'[n].st[k] = dom[n].st[k]
      ]_vars


\* the one run of text nodes the last pass was given, if that is what it got
PlainRun == Pass.sel.runs[1]

\* apply() has returned from a pass over one run of plain text that no
\* suitable element surrounds, made with an inline style and a fresh mode
PlainTextPass ==
    /\ pc = "idle" /\ hist # <<>>
    /\ ~style.elementIsBlock
    /\ Pass.mode = ""
    /\ Pass.sel.kind = "range" /\ Len(Pass.sel.runs) = 1
    /\ \A n \in Range(PlainRun) : IsText(Pass.H, n) /\ ~Styled(Pass.H, n)

Font == queue[1]

Applicator == [H |-> dom, mode |-> mode]

ClosestWrapper == Closest(dom, Font, SuitableNodes(dom, TRUE, style), Root)

\* applyToElement is about to take its closest-wrapper step on an inline
\* ancestor of the fragment
ClosestCase ==
    /\ InPass
    /\ ~style.elementIsBlock
    /\ ~CheckSuitableParent(Applicator, Font, style).ok
    /\ ~CheckSuitableChild(Applicator, Font, style).ok
    /\ ClosestWrapper # Null
    /\ ~IsBlock(dom, ClosestWrapper)

\* the tree when the step is done
Split == CheckClosestWrapper(Applicator, Font, style).S.H

\* the text of the ancestor in front of the fragment, and behind it
LeftText ==
    SubSeq(TextBefore(dom, Font), Len(TextBefore(dom, ClosestWrapper)) + 1,
           Len(TextBefore(dom, Font)))

RightText ==
    SubSeq(TextContent(dom, ClosestWrapper),
           Len(LeftText) + Len(TextContent(dom, Font)) + 1,
           Len(TextContent(dom, ClosestWrapper)))

\* the elements the step has put into the tree
NewElements == {n \in TreeNodes(Split) \ DOMAIN dom : IsElement(Split, n)}

\* C5: the closest-wrapper step splits the ancestor around the fragment: the
\* content before the fragment is in an element of the ancestor's tag before
\* it, the content after it in one after it, the fragment is in no element of
\* that tag, the text of the region is unchanged, and a remainder without
\* visible text leaves no element behind.
C5_SplitAroundFragment ==
    ClosestCase =>
      LET tag == dom[ClosestWrapper].tag IN
      /\ ~TrimIsEmpty(LeftText) =>
            \E l \in TreeNodes(Split) :
               /\ Split[l].tag = tag /\ TextContent(Split, l) = LeftText
               /\ Precedes(Split, l, Font) /\ Font \notin Subtree(Split, l)
      /\ ~TrimIsEmpty(RightText) =>
            \E r \in TreeNodes(Split) :
               /\ Split[r].tag = tag /\ TextContent(Split, r) = RightText
               /\ Precedes(Split, Font, r)
      /\ \A a \in Ancestors(Split, Font) : Split[a].tag # tag
      /\ TextContent(Split, Root) = TextContent(dom, Root)
      /\ TrimIsEmpty(LeftText) =>
            \A n \in NewElements : ~Precedes(Split, n, Font)
      /\ TrimIsEmpty(RightText) =>
            \A n \in NewElements : ~Precedes(Split, Font, n)


\* ---- save() and restore()
\* an operation that saves the selection has returned
Finished ==
    /\ pc \in {"idle", "done"}
    /\ call.op \in {"apply", "wrap", "wrapInline"}

\* C6: the selection restored at the end of Dom.wrap, Dom.wrapInline and
\* apply() has the same text in front of each of its ends as the selection
\* that was saved, whatever was done to the nodes in between.
C6_SelectionKept ==
    (Finished /\ selInfo = <<>>) => selOff = savedOff

\* apply() has returned from a range that began behind some text, and the
\* element the range began in has left the tree
C6_Witness ==
    /\ Finished /\ selInfo = <<>> /\ call.op = "apply"
    /\ Len(savedOff) = 2 /\ savedOff[1] # <<>> /\ savedOff[2] # savedOff[1]
    /\ ~InTree(dom, Parent(Pass.H, Pass.sel.runs[1][1]))

\* C7: when Dom.wrap, Dom.wrapInline or apply() returns, the markers of its
\* save() have been given to restore(): none is outstanding.
C7_SaveRestored == Finished => selInfo = <<>>


\* ---- toggling twice
\* the text a pass was given, over all the runs of its selection
RECURSIVE RunsText(_, _)
RunsText(H, rs) ==
    IF rs = <<>> THEN <<>> ELSE TextContentSeq(H, rs[1]) \o RunsText(H, Tail(rs))

\* the element E the first pass found around exactly the text it was given
FirstE ==
    LET r == hist[1].sel.runs[1] IN
    IF Len(r) = 1 /\ IsElement(hist[1].H, r[1]) THEN r[1]
    ELSE Parent(hist[1].H, r[1])

\* two passes with a fresh applicator each have run over the same text
TwoPasses ==
    /\ pc = "idle" /\ Len(hist) = 2
    /\ hist[1].mode = "" /\ hist[2].mode = ""
    /\ hist[1].sel.kind = "range" /\ Len(hist[1].sel.runs) = 1
    /\ hist[2].sel.kind = "range"
    /\ RunsText(hist[2].H, hist[2].sel.runs) = RunsText(hist[1].H, hist[1].sel.runs)

\* the first pass unwrapped an element E suitable for the style that held
\* exactly the selected text, the second pass wrapped
UnwrapThenWrap ==
    /\ TwoPasses
    /\ hist[1].end = "UNWRAP" /\ hist[2].end = "WRAP"
    /\ FirstE # Root
    /\ IsSuitableElement(hist[1].H, FirstE, TRUE, style)
    /\ TextContent(hist[1].H, FirstE) = RunsText(hist[1].H, hist[1].sel.runs)

\* the first pass wrapped plain text, the second pass unwrapped
WrapThenUnwrap ==
    /\ TwoPasses
    /\ hist[1].end = "WRAP" /\ hist[2].end = "UNWRAP"
    /\ \A n \in Range(hist[1].sel.runs[1]) :
          IsText(hist[1].H, n) /\ ~Styled(hist[1].H, n)

\* the tree below n without the identities of its nodes: adjacent text nodes
\* count as one, empty ones as none
RECURSIVE Shape(_, _)
RECURSIVE ShapeSeq(_, _, _)
Shape(H, n) ==
    [tag |-> H[n].tag, st |-> H[n].st, oth |-> H[n].oth, at |-> H[n].at,
     kids |-> ShapeSeq(H, H[n].kids, <<>>)]
ShapeSeq(H, s, text) ==
    IF s = <<>> THEN (IF text = <<>> THEN <<>> ELSE <<text>>)
    ELSE IF IsText(H, s[1]) THEN ShapeSeq(H, Tail(s), text \o H[s[1]].val)
    ELSE (IF text = <<>> THEN <<>> ELSE <<text>>)
         \o <<Shape(H, s[1])>> \o ShapeSeq(H, Tail(s), <<>>)

\* C8: unwrapping an element E suitable for the style and then wrapping the
\* same text with a fresh pass gives again the tag of E around the same text,
\* the same visible text and the non-style attributes of E; wrapping plain
\* text and then unwrapping it gives the original tree.
C8_InversePair ==
    /\ UnwrapThenWrap =>
          /\ TextContent(dom, Root) = TextContent(hist[1].H, Root)
          /\ \E e \in TreeNodes(dom) :
                /\ dom[e].tag = hist[1].H[FirstE].tag
                /\ dom[e].at = hist[1].H[FirstE].at
                /\ TextContent(dom, e) = TextContent(hist[1].H, FirstE)
                /\ TextBefore(dom, e) = TextBefore(hist[1].H, FirstE)
    /\ WrapThenUnwrap => Shape(dom, Root) = Shape(hist[1].H, Root)

\* ---- nesting
\* no element of the style's tag lies in another one
NoNested(H) ==
    \A a \in TreeNodes(H) \ {Root} : \A b \in Descendants(H, a) :
        ~(H[a].tag = style.element /\ H[b].tag = style.element /\ ~H[b].mk)

\* C9: if no element of the style's tag lies in another one before apply(),
\* none does after it.
C9_NoNestedDuplicates ==
    (pc = "idle" /\ hist # <<>> /\ NoNested(Pass.H)) => NoNested(dom)


\* ---- Dom.each
\* C10: when the callback removes the node it is called on, Dom.each still
\* calls it on every sibling that followed that node before the removal,
\* unless the callback stops the walk by returning false.
C10_EachVisitsLaterSiblings ==
    (pc = "done" /\ call.op = "each" /\ call.ret = 1) => owed \subseteq Range(seen)

\* a walk has ended in which the callback removed a node that had later
\* siblings, and one in which it removed a node with children
C10_Witness ==
    /\ pc = "done" /\ call.op = "each" /\ call.ret = 1
    /\ owed # {}
    /\ \E n \in Range(seen) : ~InTree(dom, n) /\ dom[n].kids # <<>>

\* ---- the searches
Reverse(s) == [i \in DOMAIN s |-> s[Len(s) + 1 - i]]

\* the last call of a Dom function on the tree alone
Last == log[Len(log)]

\* the subtree of n depth-first, the children taken first to last (fwd) or
\* last to first
RECURSIVE DepthFirst(_, _, _)
RECURSIVE DepthFirstSeq(_, _, _)
DepthFirst(H, n, fwd) ==
    <<n>> \o DepthFirstSeq(H, IF fwd THEN H[n].kids ELSE Reverse(H[n].kids), fwd)
DepthFirstSeq(H, s, fwd) ==
    IF s = <<>> THEN <<>>
    ELSE DepthFirst(H, s[1], fwd) \o DepthFirstSeq(H, Tail(s), fwd)

\* the siblings that follow n (fwd) or precede it, the nearest first
SiblingsFrom(H, n, fwd) ==
    LET ks == H[Parent(H, n)].kids
        i  == IndexOf(ks, n)
    IN  IF fwd THEN SubSeq(ks, i + 1, Len(ks)) ELSE Reverse(SubSeq(ks, 1, i - 1))

\* the region a search from n below root covers, in its order: the siblings
\* of n, each with its subtree, then those of each ancestor of n below root
RECURSIVE Region(_, _, _, _)
Region(H, n, root, fwd) ==
    IF n = root \/ Parent(H, n) = Null THEN <<>>
    ELSE DepthFirstSeq(H, SiblingsFrom(H, n, fwd), fwd)
         \o Region(H, Parent(H, n), root, fwd)

FirstIn(s, C) ==
    IF \E i \in DOMAIN s : s[i] \in C
    THEN s[CHOOSE i \in DOMAIN s : s[i] \in C /\ \A j \in 1 .. i - 1 : s[j] \notin C]
    ELSE Null

SearchDone == pc = "done" /\ log # <<>> /\ Last.op \in {"next", "prev"}

\* C11: Dom.next and Dom.prev return the first node of the region, in the
\* order siblings, subtree of each sibling depth-first, siblings of the
\* ancestors below root, on which condition is true, and null only when
\* condition is true on no node of the region.
C11_FirstOfRegion ==
    (SearchDone /\ Last.node # Last.root) =>
        Last.ret = FirstIn(Region(dom, Last.node, Last.root, Last.op = "next"), Last.C)

\* C12: for a start node in the subtree of root, root included, Dom.next,
\* Dom.prev, Dom.up and Dom.closest call condition on no node outside the
\* subtree of root and return no such node.
C12_RootBoundary ==
    (pc = "done" /\ log # <<>> /\ Last.op \in {"next", "prev", "up", "closest"}) =>
        /\ Last.ret \in Subtree(dom, Last.root) \cup {Null}
        /\ \A i \in DOMAIN Last.calls :
              Last.calls[i] \in Subtree(dom, Last.root) \cup {Null}

\* the same for Dom.up and Dom.closest alone, and for the searches that
\* start below root
C12_UpInside ==
    (pc = "done" /\ log # <<>>
        /\ (Last.op \in {"up", "closest"} \/ Last.node # Last.root)) =>
        /\ Last.ret \in Subtree(dom, Last.root) \cup {Null}
        /\ \A i \in DOMAIN Last.calls :
              Last.calls[i] \in Subtree(dom, Last.root) \cup {Null}

\* ---- Dom.isEmpty
\* the recursive definition of emptiness
EmptyByDefinition(H, n) ==
    IF n = Null THEN TRUE
    ELSE IF H[n].tag = "#text" THEN \A i \in DOMAIN H[n].val : H[n].val[i] = 0
    ELSE \A d \in Subtree(H, n) :
            /\ H[d].tag \notin {"img", "svg", "canvas", "input", "textarea", "form"}
            /\ H[d].tag = "#text" => \A i \in DOMAIN H[d].val : H[d].val[i] = 0

\* C13: Dom.isEmpty(node) is true for a missing node and for a text of white
\* space or of nothing, and for an element exactly when neither it nor any
\* node below it, at any depth, is an element of the exception set or a text
\* with something other than white space.
C13_IsEmptyRecursive ==
    (pc = "done" /\ log # <<>> /\ Last.op = "isEmpty") =>
        Last.ret = EmptyByDefinition(dom, Last.node)

\* isEmpty has said no for an element that holds nothing itself but has
\* text two levels down
C13_Witness ==
    /\ pc = "done" /\ log # <<>> /\ Last.op = "isEmpty"
    /\ Last.node # Null /\ Last.ret = FALSE
    /\ IsElement(dom, Last.node)
    /\ \A i \in DOMAIN dom[Last.node].kids :
          /\ IsElement(dom, dom[Last.node].kids[i])
          /\ dom[dom[Last.node].kids[i]].tag \notin NoEmptyElement
    /\ \E d \in Descendants(dom, Last.node) :
          IsText(dom, d) /\ ~TrimIsEmpty(dom[d].val)

\* ---- the mutators
\* the last call was op, made on the tree Last.before
Did(op) == pc = "mut" /\ log # <<>> /\ Last.op = op

\* s with its i-th element replaced by the elements of r
Spliced(s, i, r) == SubSeq(s, 1, i - 1) \o r \o SubSeq(s, i + 1, Len(s))

\* the nodes other than those of S have the children they had
SameKidsBut(S) ==
    \A x \in DOMAIN Last.before : x \notin S => dom[x].kids = Last.before[x].kids

\* C14: Dom.unwrap(node) on a node with a parent removes node and leaves its
\* children at its former position in the parent, in their order, every
\* other node keeping its children; on a node without a parent it changes
\* nothing.
C14_UnwrapSplices ==
    Did("unwrap") =>
        LET H == Last.before
            n == Last.node
            p == Parent(H, n)
        IN  IF p = Null THEN dom = H
            ELSE /\ dom[p].kids = Spliced(H[p].kids, IndexOf(H[p].kids, n), H[n].kids)
                 /\ dom[n].kids = <<>>
                 /\ Parent(dom, n) = Null
                 /\ SameKidsBut({p, n})
                 /\ Len(dom) = Len(H)

\* a node with a child and with a sibling on each side was unwrapped
C14_Witness ==
    /\ Did("unwrap")
    /\ Parent(Last.before, Last.node) # Null
    /\ Last.before[Last.node].kids # <<>>
    /\ PreviousSibling(Last.before, Last.node) # Null
    /\ NextSibling(Last.before, Last.node) # Null

\* C15: Dom.wrap(node, tag) on a node with a parent returns the wrapper, a
\* new element that has the place node had in the parent and node as its
\* only and so last child, every other node keeping its children; on a node
\* without a parent it returns null.
C15_WrapInPlace ==
    Did("wrap") =>
        LET H == Last.before
            n == Last.node
            p == Parent(H, n)
            w == Last.ret
        IN  IF p = Null THEN w = Null
            ELSE /\ w \in DOMAIN dom /\ w \notin DOMAIN H
                 /\ dom[w].tag \in WrapTags
                 /\ dom[p].kids = Spliced(H[p].kids, IndexOf(H[p].kids, n), <<w>>)
                 /\ dom[w].kids # <<>> /\ dom[w].kids[Len(dom[w].kids)] = n
                 /\ SameKidsBut({p})

\* a node with a sibling on each side was wrapped
C15_Witness ==
    /\ Did("wrap")
    /\ Last.ret # Null
    /\ PreviousSibling(Last.before, Last.node) # Null
    /\ NextSibling(Last.before, Last.node) # Null
    /\ Parent(dom, Last.node) = Last.ret

\* the run around the i-th of the siblings s in the tree H: from the first
\* to the last index reached from i over siblings that are no blocks
RunLow(H, s, i) ==
    CHOOSE j \in 1 .. i :
        /\ \A k \in j .. i - 1 : ~IsBlock(H, s[k])
        /\ j = 1 \/ IsBlock(H, s[j - 1])

RunHigh(H, s, i) ==
    CHOOSE j \in i .. Len(s) :
        /\ \A k \in i + 1 .. j : ~IsBlock(H, s[k])
        /\ j = Len(s) \/ IsBlock(H, s[j + 1])

\* C16: Dom.wrapInline(node, tag) on a node with a parent puts into one new
\* wrapper exactly the longest row of siblings around node in which no
\* sibling other than node is a block, in their order; the wrapper stands
\* where the first of the row stood and nothing else changes.
C16_WrapInlineRun ==
    (Did("wrapInline") /\ Parent(Last.before, Last.node) # Null) =>
        LET H  == Last.before
            p  == Parent(H, Last.node)
            s  == H[p].kids
            i  == IndexOf(s, Last.node)
            lo == RunLow(H, s, i)
            hi == RunHigh(H, s, i)
            w  == Last.ret
        IN  /\ w \in DOMAIN dom /\ w \notin DOMAIN H
            /\ dom[w].kids = SubSeq(s, lo, hi)
            /\ dom[p].kids = SubSeq(s, 1, lo - 1) \o <<w>> \o SubSeq(s, hi + 1, Len(s))
            /\ SameKidsBut({p})

\* the row wrapped had something on the left of node and ended at a block on
\* the right
C16_Witness ==
    /\ Did("wrapInline")
    /\ Parent(Last.before, Last.node) # Null
    /\ PreviousSibling(Last.before, Last.node) # Null
    /\ Len(dom[Last.ret].kids) >= 2
    /\ IsBlock(dom, NextSibling(dom, Last.ret))

\* ---- content under the mutators
Keep(s, S) == SelectSeq(s, LAMBDA x : x \in S)

\* the top of the tree the document is in
Top(H) ==
    CHOOSE x \in DOMAIN H : Parent(H, x) = Null /\ Root \in Subtree(H, x)

\* the tree in document order
InOrder(H) == PreOrder(H, Top(H))

\* the tree the last call was made on, as the call left it
InOrderNow == PreOrder(dom, Top(Last.before))

\* the text nodes among s
Texts(H, s) == Keep(s, {x \in DOMAIN H : H[x].tag = "#text"})

TextsBefore == Texts(Last.before, InOrder(Last.before))

TextsNow == Texts(dom, InOrderNow)

\* its text nodes and its nodes without children
TextsAndLeaves(H) ==
    {x \in Range(InOrder(H)) : H[x].tag = "#text" \/ H[x].kids = <<>>}

\* the last call was one of ops, on nodes of the tree only
OnTree(ops) ==
    /\ pc = "mut" /\ log # <<>> /\ Last.op \in ops
    /\ Last.node \in Range(InOrder(Last.before))
    /\ Last.arg \in Range(InOrder(Last.before)) \cup {Null}

OneParent(H) ==
    \A x \in DOMAIN H :
        Cardinality({pi \in (DOMAIN H) \X (1 .. Len(H)) :
                        pi[2] \in DOMAIN H[pi[1]].kids /\ H[pi[1]].kids[pi[2]] = x}) <= 1

OnParentless(ops) ==
    /\ pc = "mut" /\ log # <<>> /\ Last.op \in ops
    /\ Parent(Last.before, Last.node) = Null

\* every node there was has the children and the parent it had
NothingMoved ==
    \A x \in DOMAIN Last.before :
        /\ dom[x] = Last.before[x]
        /\ Parent(dom, x) = Parent(Last.before, x)

\* C18: Dom.wrap, Dom.wrapInline, Dom.unwrap, Dom.replace, Dom.after and
\* Dom.safeRemove on a node without a parent, and Dom.safeRemove on null, do
\* not throw and leave every node with the children and the parent it had.
C18_ParentlessUntouched ==
    OnParentless({"wrap", "wrapInline", "unwrap", "replace", "after", "safeRemove"}) =>
        ~Last.threw /\ NothingMoved

\* the same without Dom.replace and Dom.wrapInline
C18_EarlyReturns ==
    OnParentless({"wrap", "unwrap", "after", "safeRemove"}) =>
        ~Last.threw /\ NothingMoved

\* ---- the editor object
\* C19: getInstance(moduleName) throws exactly when what the registry holds
\* under moduleName is no class; otherwise it returns an instance, the one
\* it returned before for that name if there was one, and no more instances
\* are ever constructed than there are names.
C19_OneInstancePerName ==
    (log # <<>> /\ Last.op = "getInstance") =>
        /\ Last.threw <=> modules[Last.name] # "class"
        /\ ~Last.threw => /\ Last.ret # 0
                          /\ Last.ret = jodit.modulesInstances[Last.name]
                          /\ Last.had # 0 => Last.ret = Last.had
        /\ jodit.made = Cardinality({m \in DOMAIN modules : jodit.modulesInstances[m] # 0})

\* the same for the editor and the abstract view alone
C19_EditorAndAbstractView ==
    jodit.kind \in {"Jodit", "AbstractView"} => C19_OneInstancePerName

\* C20: whenever no call of setEditorValue, setElementValue or execCommand
\* is open, the value of the source element equals getEditorValue(); and
\* every open call returns in the end.
C20_Synchronized ==
    /\ [](frames = <<>> /\ jodit.kind = "Jodit" =>
             GetElementValue(jodit) = GetEditorValue(jodit))
    /\ (frames # <<>>) ~> (frames = <<>>)

\* setElementValue was called with a value the editor reads back in
\* another form, so that setEditorValue called setElementValue in turn, and
\* all three calls have returned
C20_Witness ==
    /\ frames = <<>> /\ log # <<>> /\ Last.op = "setElementValue"
    /\ jodit.element.value # <<"undefined">>
    /\ jodit.element.value # <<>>
    /\ jodit.editor.innerHTML # jodit.element.value


\* ---- apply() on a collapsed selection
\* apply() has returned from a pass over a caret, begun with a fresh mode
CaretPassDone ==
    /\ pc = "idle" /\ hist # <<>>
    /\ Pass.sel.kind = "caret" /\ Pass.mode = ""

\* the caret of the pass stood in an element that is suitable for the style
CaretInSuitable ==
    \E a \in (Ancestors(Pass.H, Pass.sel.at[1]) \cup {Pass.sel.at[1]}) \ {Root} :
        IsSuitableElement(Pass.H, a, FALSE, style)

\* the elements of the style's tag the pass has put into the tree
NewStyleElements ==
    {e \in TreeNodes(dom) \ DOMAIN Pass.H : dom[e].tag = style.element}

\* the steps of a pass over a caret come in their order: while
\* applyToElement is still to run, the anchor is in the tree at the caret,
\* holds the marker of the save() and is the one fragment to process; once
\* it has run the anchor is gone; when apply() has returned no anchor and no
\* marker is in the tree and the save is restored
CaretStepsInOrder ==
    /\ pc = "caret" =>
          /\ queue # <<>> /\ dom[queue[1]].tag = "font" /\ InTree(dom, queue[1])
          /\ Len(queue) = 1
          /\ Len(selInfo) = 1 /\ selInfo[1] \in Subtree(dom, queue[1])
          /\ Parent(dom, queue[1]) = Pass.sel.at[1]
    /\ (pc = "frags" /\ Pass.sel.kind = "caret") =>
          /\ queue = <<>>
          /\ \A n \in TreeNodes(dom) : dom[n].tag # "font"
    /\ (pc = "idle" /\ hist # <<>> /\ Pass.sel.kind = "caret") =>
          /\ selInfo = <<>>
          /\ \A n \in TreeNodes(dom) : dom[n].tag # "font" /\ ~dom[n].mk

\* the new element of the style's tag that holds the caret
HoldsCaret(e) ==
    /\ sel.kind = "caret" /\ sel.at[1] \in Subtree(dom, e)
    /\ selOff = savedOff

SuitableInside ==
    {n \in Descendants(dom, Font) : IsSuitableElement(dom, n, TRUE, style)}

\* applyToElement is about to reach unwrapChildren on a fragment that has a
\* suitable descendant
UnwrapCase ==
    /\ InPass
    /\ ~CheckSuitableParent(Applicator, Font, style).ok
    /\ ~CheckSuitableChild(Applicator, Font, style).ok
    /\ ClosestWrapper = Null
    /\ SuitableInside # {}

\* what unwrapChildren returns and leaves, and what applyToElement leaves
Unwrapped == UnwrapChildren(Applicator, Font, style)

Applied == ApplyToElement(Applicator, Font, style)

\* C24: when unwrapChildren runs on a fragment that has a suitable
\* descendant at any position or depth, every suitable descendant is
\* unwrapped, an undetermined mode becomes UNWRAP, and applyToElement stops:
\* the fallback wrap is not executed on the fragment.
C24_UnwrapStops ==
    UnwrapCase =>
      /\ \A n \in SuitableInside : Parent(Unwrapped.S.H, n) = Null
      /\ mode = "" => Applied.mode = "UNWRAP"
      /\ Unwrapped.ok
      /\ Applied = Unwrapped.S

\* the parts of C24 one by one
C24_AllUnwrapped ==
    UnwrapCase => \A n \in SuitableInside : Parent(Unwrapped.S.H, n) = Null

C24_ModeSet == (UnwrapCase /\ mode = "") => Unwrapped.S.mode = "UNWRAP"

C24_Stops == UnwrapCase => Unwrapped.ok /\ Applied = Unwrapped.S


\* ---- toggleStyles
Modes == {"", "WRAP", "UNWRAP"}

\* the style of the applicator, and the same style with a second rule
RuleStyles ==
    IF style.hasStyle THEN {style, [style EXCEPT !.rules["p2"] = "w"]} ELSE {}

\* the elements of the tree toggleStyles can be given: any but the root
Toggled ==
    {n \in TreeNodes(dom) \ {Root} : IsElement(dom, n) /\ dom[n].tag # "font"}

\* the applicator after toggleStyles(elm), called with mode m and style sty
AfterToggle(m, elm, sty) == ToggleStyles([H |-> dom, mode |-> m], elm, sty)

\* the rule's value on the element equals the target value
AtTarget(elm, sty, k) == CssGet(dom, elm, k) = NormalizeCssValue(sty.rules[k])

\* the mode when the loop comes to rule k: the mode of the call, or what the
\* first rule made of an undetermined mode
ModeAt(m, elm, sty, k) ==
    IF m # "" \/ k = RuleKeys(sty)[1] THEN m
    ELSE IF AtTarget(elm, sty, RuleKeys(sty)[1]) THEN "UNWRAP" ELSE "WRAP"

\* rule k was treated as the rule loop of toggleStyles treats a rule
RuleTreated(m, elm, sty, k) ==
    LET T  == AfterToggle(m, elm, sty)
        mk == ModeAt(m, elm, sty, k)
    IN  IF mk = "UNWRAP" \/ AtTarget(elm, sty, k)
        THEN CssGet(T.H, elm, k) = "" /\ (mk = "" => T.mode = "UNWRAP")
        ELSE /\ CssGet(T.H, elm, k) = sty.rules[k]
             /\ mk = "" => T.mode = "WRAP"

\* under WRAP no rule was cleared, under UNWRAP no rule was set
NeverAgainstMode(m, elm, sty, k) ==
    LET T == AfterToggle(m, elm, sty) IN
    /\ m = "WRAP" => (CssGet(dom, elm, k) # "" => CssGet(T.H, elm, k) # "")
    /\ m = "UNWRAP" => CssGet(T.H, elm, k) \in {"", CssGet(dom, elm, k)}

Asked(n) ==
    IF ~IsElement(dom, n) \/ n = Root \/ dom[n].tag = "#fragment" THEN {dom}
    ELSE {[dom EXCEPT ![n].tag = t, ![n].st["p1"] = v] :
             t \in IF dom[n].mk THEN {dom[n].tag}
                   ELSE {dom[n].tag, style.element, "font"},
             v \in {"", "v", "V", "w"}}

\* (a) of the definition: the tag is the target tag, and the target tag is
\* not the default tag or the match is not strict
SameTag(H, elm, strict) ==
    /\ H[elm].tag = style.element
    /\ style.element # style.defaultTag \/ ~strict

\* the element carries every property/value pair of the style, the values
\* compared without regard to case
CarriesStyle(H, elm) ==
    /\ style.hasStyle /\ IsElement(H, elm)
    /\ \A k \in Props :
          style.rules[k] # "" =>
             /\ H[elm].st[k] # ""
             /\ H[elm].st[k] \in {style.rules[k], "V"} /\ style.rules[k] \in {"v", "V"}

\* (b) of the definition as the claim has it
ByStyle(H, elm) ==
    /\ CarriesStyle(H, elm)
    /\ ~H[elm].mk
    /\ ~(IsText(H, elm) /\ H[elm].val = <<>>)

\* C26 as stated: isSuitableElement(elm, strict) is true exactly when (a)
\* the tag is the target tag and the target is not the default tag or strict
\* is false, or (b) elm carries every CSS pair of the style and is neither a
\* selection marker nor an empty text node.
C26_SuitableExactly ==
    \A n \in DOMAIN dom : \A H \in Asked(n) : \A strict \in BOOLEAN :
        IsSuitableElement(H, n, strict, style)
            <=> (SameTag(H, n, strict) \/ ByStyle(H, n))

\* C26, amended: the same with (b) not holding for the anchor element
\* (font); and an element of the target tag that lacks the style's CSS is
\* not suitable only when the target tag is the default tag and strict is
\* true.
C26_SuitableExactlyButAnchor ==
    \A n \in DOMAIN dom : \A H \in Asked(n) : \A strict \in BOOLEAN :
        /\ IsSuitableElement(H, n, strict, style)
              <=> \/ SameTag(H, n, strict)
                  \/ ByStyle(H, n) /\ H[n].tag # "font"
        /\ (H[n].tag = style.element /\ ~CarriesStyle(H, n)) =>
              (IsSuitableElement(H, n, strict, style)
                  <=> ~(style.element = style.defaultTag /\ strict))

\* the fragment that is processed next lies in an element that is suitable
\* by its style alone
C26_Witness ==
    /\ InPass /\ ClosestWrapper # Null
    /\ dom[ClosestWrapper].tag # style.element


\* ---- the fallback wrap
\* applyToElement is about to reach its fallback wrap with the mode
\* undetermined or WRAP: the four checks do not stop it
FallbackCase ==
    /\ InPass /\ mode # "UNWRAP"
    /\ ~CheckSuitableParent(Applicator, Font, style).ok
    /\ ~CheckSuitableChild(Applicator, Font, style).ok
    /\ ClosestWrapper = Null
    /\ ~Unwrapped.ok

\* the wrapper that is chosen, and the tree when it is chosen
Chosen ==
    LET H == Unwrapped.S.H IN
    IF ~style.elementIsBlock THEN [H |-> H, wrapper |-> Font]
    ELSE IF Up(H, Font, Blocks(H), Root) # Null
    THEN [H |-> H, wrapper |-> Up(H, Font, Blocks(H), Root)]
    ELSE WrapUnwrappedText(H, Font, style)

\* the element Dom.replace creates
NewWrapper == NewId(Chosen.H)

\* C27: the fallback wrap replaces the chosen wrapper by a new element of
\* the style's target tag, which stands where the wrapper stood and holds
\* the wrapper's former children in their order; the style's CSS properties
\* are on the new element if and only if the target tag is the default tag.
C27_WrapperReplaced ==
    FallbackCase =>
      LET H == Chosen.H
          w == Chosen.wrapper
          R == Applied.H
      IN  /\ Applied.mode = "WRAP"
          /\ NewWrapper \in DOMAIN R /\ R[NewWrapper].tag = style.element
          /\ Parent(H, w) # Null /\ Parent(R, NewWrapper) = Parent(H, w)
          /\ R[Parent(H, w)].kids =
                [i \in DOMAIN H[Parent(H, w)].kids |->
                    IF H[Parent(H, w)].kids[i] = w THEN NewWrapper
                    ELSE H[Parent(H, w)].kids[i]]
          /\ R[NewWrapper].kids = H[w].kids
          /\ Parent(R, w) = Null /\ R[w].kids = <<>>
          /\ \A k \in Props :
                R[NewWrapper].st[k] =
                   IF style.element = style.defaultTag THEN style.rules[k] ELSE ""
          /\ \A n \in DOMAIN H \ {w, Parent(H, w)} : R[n] = H[n]

\* a fragment of two nodes is about to be wrapped by a style whose target
\* tag is its default tag, so that the CSS is applied
C27_Witness ==
    /\ FallbackCase /\ style.element = style.defaultTag /\ style.hasStyle
    /\ Len(dom[Font].kids) >= 2

\* a block style is about to replace the block around the fragment
C27_WitnessBlock ==
    /\ FallbackCase /\ style.elementIsBlock
    /\ Chosen.wrapper \in DOMAIN dom /\ Parent(dom, Font) = Chosen.wrapper
    /\ Len(dom[Chosen.wrapper].kids) >= 2


\* ---- the mode between two calls of apply()
\* C28: at the start of every apply() the mode is undetermined: the
\* decision of one apply() does not reach a later apply() on the same
\* ApplyStyle object.
C28_ModeFresh == \A i \in DOMAIN hist : hist[i].mode = ""

\* a second apply() on the same object, begun with the UNWRAP of the first,
\* has returned from a selection of plain text and has wrapped nothing
C28_LaterPassDecided ==
    /\ pc = "idle" /\ Len(hist) = 2
    /\ Pass.mode = "UNWRAP"
    /\ Pass.sel.kind = "range" /\ Len(Pass.sel.runs) = 1
    /\ \A n \in Range(PlainRun) : IsText(Pass.H, n) /\ ~Styled(Pass.H, n)
    /\ ~TrimIsEmpty(TextContentSeq(Pass.H, PlainRun))
    /\ \A e \in TreeNodes(dom) : dom[e].tag # style.element


\* ---- execCommand
\* the steps of the execCommand call made last
Steps == Last.steps

\* the place of a step in the order of execCommand
Rank(ev) ==
    CASE ev = "beforeCommand" -> 1 [] ev = "handler" -> 2 [] ev = "native" -> 3
      [] ev = "afterCommand" -> 4 [] OTHER -> 5

\* the steps are in the order of execCommand, each but the handlers once,
\* with afterCommand and the synchronisation at the end in every case
StepsInOrder ==
    /\ Len(Steps) >= 3
    /\ Steps[1].ev = "beforeCommand"
    /\ Steps[Len(Steps) - 1].ev = "afterCommand"
    /\ Steps[Len(Steps)].ev = "setEditorValue"
    /\ \A i \in DOMAIN Steps : \A j \in DOMAIN Steps :
          i < j => /\ Rank(Steps[i].ev) <= Rank(Steps[j].ev)
                   /\ Steps[i].ev = Steps[j].ev => Steps[i].ev = "handler"
    /\ (\E i \in DOMAIN Steps : Steps[i].ev = "handler") => Steps[1].ret # "false"
    /\ Steps[1].ret # "false" =>
          Len(SelectSeq(Steps, LAMBDA x : x.ev = "handler")) = Len(jodit.commands)

\* on a read-only editor nothing is fired, run or changed
ReadOnlyIgnored ==
    /\ Steps = <<>> /\ Last.ret = "undefined"
    /\ jodit = Last.before /\ frames = <<>>

\* once the call has returned, the source element has the editor's value
Synchronized == frames = <<>> => GetElementValue(jodit) = GetEditorValue(jodit)

\* C29: execCommand on an editor that is not read-only fires beforeCommand
\* first, runs the handlers only if beforeCommand did not return false, runs
\* the native command only if neither returned false, and in every case then
\* fires afterCommand and synchronizes the value; on a read-only editor it
\* fires nothing, runs nothing, changes nothing and returns undefined.
C29_CommandOrder ==
    (log # <<>> /\ Last.op = "execCommand") =>
        IF jodit.readonly THEN ReadOnlyIgnored
        ELSE /\ StepsInOrder
             /\ Synchronized
             /\ \A i \in DOMAIN Steps :
                   Steps[i].ev = "native" =>
                      \A j \in 1 .. i - 1 : Steps[j].ret # "false"

\* the same with the native command run only if beforeCommand did not return
\* false and the last handler that returned a value did not return false
C29_LastResultDecides ==
    (log # <<>> /\ Last.op = "execCommand") =>
        IF jodit.readonly THEN ReadOnlyIgnored
        ELSE /\ StepsInOrder
             /\ Synchronized
             /\ (\E i \in DOMAIN Steps : Steps[i].ev = "native") <=>
                   /\ Steps[1].ret # "false"
                   /\ \A j \in 2 .. Len(Steps) :
                         (Steps[j].ev = "handler" /\ Steps[j].ret = "false") =>
                            \E k \in j + 1 .. Len(Steps) :
                               Steps[k].ev = "handler" /\ Steps[k].ret # "undefined"

\* a command with two handlers has run and returned
C29_Witness ==
    /\ log # <<>> /\ Last.op = "execCommand" /\ frames = <<>>
    /\ Len(SelectSeq(Steps, LAMBDA x : x.ev = "handler")) = 2


\* ---- modes
\* the mode classes the container carries
ModeClassesOf(J) == J.classes \cap Range(ModeClasses)

\* a call of toggleMode that no listener stopped moved the mode one step
\* along its cycle
ToggleCycles ==
    (log # <<>> /\ Last.op = "toggleMode" /\ ~Last.veto) =>
        jodit.mode =
           CASE Last.before.mode = MODE_WYSIWYG -> MODE_SOURCE
             [] Last.before.mode = MODE_SOURCE ->
                   IF jodit.useSplitMode THEN MODE_SPLIT ELSE MODE_WYSIWYG
             [] OTHER -> MODE_WYSIWYG

\* an invalid mode asked of setMode becomes WYSIWYG, a valid one is taken
InvalidBecomesWysiwyg ==
    (log # <<>> /\ Last.op = "setMode" /\ ~Last.veto) =>
        jodit.mode = IF Last.requested \in {MODE_WYSIWYG, MODE_SOURCE, MODE_SPLIT}
                     THEN Last.requested ELSE MODE_WYSIWYG

\* a call that a beforeSetMode listener stopped changed nothing
VetoKeeps ==
    (log # <<>> /\ Last.op \in {"setMode", "toggleMode"} /\ Last.veto) =>
        jodit = Last.before

\* C23: toggleMode cycles WYSIWYG -> SOURCE -> SPLIT -> WYSIWYG with
\* useSplitMode and WYSIWYG -> SOURCE -> WYSIWYG without; after any sequence
\* of setMode and toggleMode calls the mode is one of the three modes, an
\* invalid mode asked for having become WYSIWYG, and the container carries
\* exactly the class of the current mode; a call stopped by a beforeSetMode
\* listener leaves mode and classes as they were.
C23_ModeAndClass ==
    jodit.kind = "Editor" =>
        /\ ToggleCycles /\ InvalidBecomesWysiwyg /\ VetoKeeps
        /\ jodit.mode \in {MODE_WYSIWYG, MODE_SOURCE, MODE_SPLIT}
        /\ ModeClassesOf(jodit) = {ModeClasses[jodit.mode]}

\* the same, the class being there once a setMode call was not stopped
C23_ModeAndClassOnceSet ==
    jodit.kind = "Editor" =>
        /\ ToggleCycles /\ InvalidBecomesWysiwyg /\ VetoKeeps
        /\ jodit.mode \in {MODE_WYSIWYG, MODE_SOURCE, MODE_SPLIT}
        /\ ModeClassesOf(jodit) \in {{}, {ModeClasses[jodit.mode]}}
        /\ (log # <<>> /\ Last.op \in {"setMode", "toggleMode"} /\ ~Last.veto) =>
              ModeClassesOf(jodit) # {}

\* ---- resizer
\* C30: whenever the resizer is not resizing, the editor is not locked with
\* the resizer's key and the resize listener of mousemove and touchmove is
\* not registered; and the frame is in the workplace exactly when the resizer
\* is shown.
C30_ResizerReleases ==
    jodit.kind = "Editor" =>
        /\ ~jodit.resizer.isResized =>
              jodit.whoLocked # "resizer" /\ ~jodit.resizer.listening
        /\ jodit.resizer.attached <=> jodit.resizer.isShown

\* the frame is in the workplace exactly when the resizer is shown
C30_FrameWhenShown ==
    jodit.kind = "Editor" => (jodit.resizer.attached <=> jodit.resizer.isShown)


\* ---- justify
\* the value of text-align a command asks for
AlignValue(command) ==
    CASE command = "justifyfull" -> "justify" [] command = "justifyright" -> "right"
      [] command = "justifyleft" -> "left" [] OTHER -> "center"

\* the blocks below the root that are n or hold n in the tree H
BlocksAround(H, n) == {b \in (Ancestors(H, n) \cup {n}) \ {Root} : IsBlock(H, b)}

\* the elements below b in the tree H that carry text-align
AlignedBelow(H, b) ==
    {d \in Descendants(H, b) : IsElement(H, d) /\ CssGet(H, d, TextAlign) # ""}

\* the step e of the command took the right block: the nearest block that is
\* the node or holds it below the root, the tree staying as it was, or, for
\* want of one, a new p around the longest row of siblings without a block
\* around the node
TookBlock(e) ==
    IF BlocksAround(e.before, e.current) # {}
    THEN /\ e.box \in BlocksAround(e.before, e.current)
         /\ BlocksAround(e.before, e.current) \subseteq Ancestors(e.before, e.box) \cup {e.box}
         /\ \A x \in DOMAIN e.before : e.after[x].kids = e.before[x].kids
         /\ DOMAIN e.after = DOMAIN e.before
    ELSE LET H  == e.before
             p  == Parent(H, e.current)
             sb == H[p].kids
             i  == IndexOf(sb, e.current)
             lo == RunLow(H, sb, i)
             hi == RunHigh(H, sb, i)
         IN  /\ e.box \in DOMAIN e.after /\ e.box \notin DOMAIN H
             /\ e.after[e.box].tag = "p"
             /\ e.after[e.box].kids = SubSeq(sb, lo, hi)
             /\ e.after[p].kids = SubSeq(sb, 1, lo - 1) \o <<e.box>>
                                  \o SubSeq(sb, hi + 1, Len(sb))
             /\ \A x \in DOMAIN H : x # p => e.after[x].kids = H[x].kids

\* a justify command is running or has run
Justifying == pc \in {"justify", "done"} /\ call.op \in JustifyCommands

\* C22: a justify command aligns one block for each selected node, the
\* nearest block that is the node or holds it below the root, or a new p
\* around the longest row of siblings without a block around the node; after
\* the command that block carries the text-align of the command and no
\* element inside it carries a text-align.
C22_BlockAligned ==
    (Justifying /\ pc = "done") =>
        \A i \in DOMAIN log :
           /\ TookBlock(log[i])
           /\ CssGet(dom, log[i].box, TextAlign) = AlignValue(call.op)
           /\ AlignedBelow(dom, log[i].box) = {}

\* the blocks taken for the selected nodes after the i-th
TakenAfter(i) == {log[j].box : j \in {k \in DOMAIN log : k > i}}

\* the same with the block aligned and nothing aligned inside it when the
\* turn of its node is over; later the block has lost its text-align only to
\* a block taken later that holds it, and the elements aligned inside it are
\* blocks taken later
C22_BlockAlignedInTurn ==
    Justifying =>
        \A i \in DOMAIN log :
           /\ TookBlock(log[i])
           /\ CssGet(log[i].after, log[i].box, TextAlign) = AlignValue(call.op)
           /\ AlignedBelow(log[i].after, log[i].box) = {}
           /\ \/ CssGet(dom, log[i].box, TextAlign) = AlignValue(call.op)
              \/ /\ CssGet(dom, log[i].box, TextAlign) = ""
                 /\ \E b \in TakenAfter(i) : log[i].box \in Descendants(dom, b)
           /\ AlignedBelow(dom, log[i].box) \subseteq TakenAfter(i)
           /\ TakenAfter(i) = {} =>
                 /\ CssGet(dom, log[i].box, TextAlign) = AlignValue(call.op)
                 /\ AlignedBelow(dom, log[i].box) = {}

\* a command has wrapped a row of two nodes into a new block and has taken
\* the alignment from an element inside it
C22_Witness ==
    /\ Justifying /\ pc = "done"
    /\ \E i \in DOMAIN log :
          /\ BlocksAround(log[i].before, log[i].current) = {}
          /\ Len(dom[log[i].box].kids) = 2
          /\ AlignedBelow(log[i].before, Parent(log[i].before, log[i].current)) # {}
          /\ \E d \in Descendants(dom, log[i].box) :
                CssGet(log[i].before, d, TextAlign) # ""

====
